---- MODULE Spec2Model ----
(***************************************************************************)
(* Model of the journal directory navigator and entry iterator of          *)
(* journald-format: JournalReader (src/src/reader.rs) over the storage     *)
(* adapter AsyncFileRead (src/src/reader/file_read.rs) as implemented by   *)
(* the on-disk / read-whole adapters (src/src/impls).                      *)
(***************************************************************************)
EXTENDS Integers, Sequences, FiniteSets, TLC

\* ------------------------------------------------------------------------
\* Options: Option<T> is the empty sequence (None) or a one-element sequence.
None == <<>>
Some(x) == <<x>>
IsSome(o) == o # <<>>

\* ------------------------------------------------------------------------
\* Bounds of the model.

\* Number of yielded entries the history `out` records (later ones are yielded
\* by the model but not recorded).
MaxOut == 9

\* Number of files a directory holds at most when its storage is faulty.
MaxFaultyFiles == 2

\* Machine ids, sequence numbers and timestamps of the filenames that are
\* compared, listed and formatted on their own range over 1 .. MaxId.
MaxId == 2

\* Number of files of a listing that is sorted on its own.
MaxListing == 3

\* Length of the scopes of the filenames that are formatted and parsed back.
MaxScopeLen == 2

\* ------------------------------------------------------------------------
\* Program constants.
OBJECT_HEADER_SIZE == 16
ENTRY_ARRAY_HEADER_SIZE == 8
ENTRY_OBJECT_HEADER_SIZE == 48
MIN_HEADER_SIZE == 208

\* ------------------------------------------------------------------------
\* Filenames (FilenameInfo) and selections (JournalSelection).

Latest(m, s) ==
    [kind |-> "Latest", machine_id |-> m, scope |-> s,
     file_seqnum |-> 0, head_seqnum |-> 0, head_realtime |-> 0]

Archived(m, s, fs, hs, hr) ==
    [kind |-> "Archived", machine_id |-> m, scope |-> s,
     file_seqnum |-> fs, head_seqnum |-> hs, head_realtime |-> hr]

is_archived(f) == f.kind = "Archived"

JournalSelection(m, s) == [machine_id |-> m, scope |-> s]

\* String order on the scopes of the model ("system" < "user").
ScopeRank(s) == IF s = "system" THEN 0 ELSE 1

\* Ordering of two integers: -1 Less, 0 Equal, 1 Greater.
IntCmp(a, b) == IF a < b THEN -1 ELSE IF a > b THEN 1 ELSE 0

\* impl PartialOrd for FilenameInfo.  Every partial_cmp of a totally ordered
\* field is Some(..), so Option::or_else never evaluates its closure: only the
\* first field of each chain decides.
FilenameCmp(a, b) ==
    IF is_archived(a) /\ is_archived(b)
      THEN IntCmp(a.head_realtime, b.head_realtime)
    ELSE IF ~is_archived(a) /\ ~is_archived(b)
      THEN IntCmp(ScopeRank(a.scope), ScopeRank(b.scope))
    ELSE IF is_archived(a) THEN -1 ELSE 1

\* The order the documentation states: lexicographic on (head_realtime,
\* head_seqnum, file_seqnum, scope, machine_id); archived before live.
Lex(s, t) ==
    LET RECURSIVE L(_)
        L(i) == IF i > Len(s) THEN 0
                ELSE IF s[i] # t[i] THEN IntCmp(s[i], t[i])
                ELSE L(i + 1)
    IN L(1)

DocKey(f) ==
    IF is_archived(f)
      THEN <<f.head_realtime, f.head_seqnum, f.file_seqnum, ScopeRank(f.scope), f.machine_id>>
      ELSE <<ScopeRank(f.scope), f.machine_id>>

DocCmp(a, b) ==
    IF is_archived(a) = is_archived(b) THEN Lex(DocKey(a), DocKey(b))
    ELSE IF is_archived(a) THEN -1 ELSE 1

\* ------------------------------------------------------------------------
\* File contents.  A file is its header (validity of the magic, the Compact
\* flag, entry_array_offset) and the objects of its arena by byte offset.  An
\* object carries its type and declared size; an entry array carries its
\* next_entry_array_offset (0 = absent) and the items stored from its item
\* region on (items beyond the declared size are the bytes that follow the
\* object in the file); an entry carries its seqnum.

DATA_OBJECT_HEADER_SIZE == 48

DATA_OBJECT_COMPACT_PAYLOAD_HEADER_SIZE == 8

\* An item of an entry object: a 64-bit offset of a Data object, as its high
\* and low 32-bit halves (a compact item has no high half: hi = 0).
Item(hi, lo) == [hi |-> hi, lo |-> lo]

\* A Data-shaped object holding `payload`, followed in the file by one byte
\* of padding.
DataObject(type, compression, compact, payload) ==
    LET head == [i \in 1 .. DATA_OBJECT_HEADER_SIZE |-> "h"]
                  \o (IF compact THEN [i \in 1 .. DATA_OBJECT_COMPACT_PAYLOAD_HEADER_SIZE |-> "c"] ELSE <<>>)
    IN [ type |-> type, compression |-> compression,
         size |-> OBJECT_HEADER_SIZE + Len(head) + Len(payload),
         body |-> head \o payload \o <<"0">> ]

EntryArrayObj(compact, cap, next, items) ==
    [type |-> "EntryArray",
     size |-> OBJECT_HEADER_SIZE + ENTRY_ARRAY_HEADER_SIZE + cap * (IF compact THEN 4 ELSE 8),
     next |-> next, items |-> items, seqnum |-> 0]

EntryObj(seqnum) ==
    [type |-> "Entry", size |-> OBJECT_HEADER_SIZE + ENTRY_OBJECT_HEADER_SIZE,
     next |-> 0, items |-> <<>>, seqnum |-> seqnum]

DataObj == [type |-> "Data", size |-> 80, next |-> 0, items |-> <<>>, seqnum |-> 0]

\* An entry object with the given items, of a size that holds exactly them.
EntryObjWith(compact, seqnum, items) ==
    [type |-> "Entry",
     size |-> OBJECT_HEADER_SIZE + ENTRY_OBJECT_HEADER_SIZE
                + Len(items) * (IF compact THEN 4 ELSE 16),
     next |-> 0, items |-> items, seqnum |-> seqnum]

\* The payload of the Data object of the entry with the given seqnum (below
\* 10): the field "k" whose value is 16 times the digit of the seqnum.
EntryDataPayload(seqnum) ==
    <<"k", "=">> \o [i \in 1 .. 16 |->
       <<"0", "1", "2", "3", "4", "5", "6", "7", "8", "9">>[seqnum + 1]]

\* The Data object of the entry with the given seqnum, as the file contents
\* keep it: its bytes are those of DataObject(.., EntryDataPayload(seqnum)).
EntryDataObj(compact, seqnum) ==
    [type |-> "Data",
     size |-> OBJECT_HEADER_SIZE + DATA_OBJECT_HEADER_SIZE
                + (IF compact THEN DATA_OBJECT_COMPACT_PAYLOAD_HEADER_SIZE ELSE 0) + 18,
     next |-> 0, items |-> <<>>, seqnum |-> seqnum]

\* The length of the files of the model that are not truncated.
FileLen == 1000

File(magic_ok, compact, entry_array_offset, objs) ==
    [magic_ok |-> magic_ok, compact |-> compact,
     entry_array_offset |-> entry_array_offset, objs |-> objs, len |-> FileLen]

\* Offsets used by the files of the model.
ArrA == MIN_HEADER_SIZE
ArrB == ArrA + 100
Ent0 == ArrB + 100
Data0 == Ent0 + 100

\* A well-formed file holding entries with the given seqnums, in order: a
\* first array of capacity 1 that is full, chained to a second array that
\* holds the rest followed by an unused (zero) item.  The entry at Ent0 + i
\* has one item, which names its Data object at Data0 + i.
Chain(compact, seqs) ==
    LET n == Len(seqs)
        ents == {Ent0 + i : i \in 0 .. n - 1}
        data == {Data0 + i : i \in 0 .. n - 1}
    IN File(TRUE, compact, ArrA,
         [o \in {ArrA} \cup (IF n > 1 THEN {ArrB} ELSE {}) \cup ents \cup data |->
            IF o = ArrA
              THEN IF n = 0 THEN EntryArrayObj(compact, 1, 0, <<0>>)
                   ELSE EntryArrayObj(compact, 1, IF n > 1 THEN ArrB ELSE 0, <<Ent0>>)
            ELSE IF o = ArrB
              THEN EntryArrayObj(compact, n, 0,
                     [i \in 1 .. n |-> IF i < n THEN Ent0 + i ELSE 0])
            ELSE IF o \in data THEN EntryDataObj(compact, seqs[o - Data0 + 1])
            ELSE EntryObjWith(compact, seqs[o - Ent0 + 1], <<Item(0, o - Ent0 + Data0)>>)])

\* A file with one entry array at ArrA and entries with seqnums 1, 2, 3 at
\* Ent0, Ent0 + 1, Ent0 + 2 and a Data object at Ent0 + 3.
OneArray(array, entry_array_offset) ==
    File(TRUE, TRUE, entry_array_offset,
         [o \in {ArrA, Ent0, Ent0 + 1, Ent0 + 2, Ent0 + 3} |->
            IF o = ArrA THEN array
            ELSE IF o = Ent0 + 3 THEN DataObj
            ELSE EntryObj(o - Ent0 + 1)])

\* A file that does not start with the magic.
BadMagic == File(FALSE, TRUE, ArrA, [o \in {ArrA} |-> EntryArrayObj(TRUE, 1, 0, <<0>>)])

\* A file of 100 bytes that does not start with the magic.
ShortBadMagic == [BadMagic EXCEPT !.len = 100]

\* Malformed and boundary files for the in-file walker.
WalkFiles ==
    { [Chain(TRUE, <<1, 2>>) EXCEPT !.objs[ArrB].next = ArrA],            \* chain cycle
      [Chain(TRUE, <<1, 2>>) EXCEPT !.objs[ArrB].next = ArrA,             \* empty chain cycle
                                    !.objs[ArrA].items = <<0>>,
                                    !.objs[ArrB].items = <<0, 0>>],
      OneArray(EntryArrayObj(TRUE, 0, 0, <<Ent0, Ent0 + 1>>), ArrA),      \* capacity 0
      OneArray(EntryArrayObj(TRUE, 0, 0, <<0>>), ArrA),                   \* capacity 0
      OneArray(EntryArrayObj(TRUE, 1, 0, <<Ent0, Ent0 + 1>>), ArrA),      \* full, no zero
      OneArray(EntryArrayObj(TRUE, 3, 0, <<Ent0, Ent0 + 1, Ent0 + 2>>), ArrA),
      OneArray(EntryArrayObj(TRUE, 3, 0, <<Ent0 + 1, Ent0, 0>>), ArrA),   \* not in seqnum order
      OneArray(EntryArrayObj(TRUE, 3, 0, <<Ent0, Ent0 + 3, 0>>), ArrA),   \* item names a Data object
      OneArray(EntryArrayObj(TRUE, 3, 0, <<Ent0, 5, 0>>), ArrA),          \* item names offset 5
      OneArray(EntryArrayObj(TRUE, 3, 0, <<Ent0>>), ArrA),                \* truncated file
      OneArray(EntryArrayObj(TRUE, 3, 0, <<Ent0, 0, 0>>), Ent0),          \* header names an Entry
      Chain(FALSE, <<1, 2, 3>>),                                          \* regular (non-compact)
      [Chain(TRUE, <<1>>) EXCEPT !.objs[Ent0].items = <<Item(0, Ent0)>>], \* entry item names an Entry
      BadMagic,
      ShortBadMagic }

\* ------------------------------------------------------------------------
\* The storage: the files of the journal directory.

sA == Archived(1, "system", 1, 1, 1)
sB == Archived(1, "system", 1, 3, 2)
sC == Archived(1, "system", 1, 5, 2)
sL == Latest(1, "system")
uA == Archived(1, "user", 2, 9, 0)
\* The Forward Secure Sealing sidecar of machine 1: a file of the machine
\* directory that is no journal.
fss == [kind |-> "Fss", machine_id |-> 1, scope |-> "fss",
        file_seqnum |-> 0, head_seqnum |-> 0, head_realtime |-> 0]

Names == {sA, sB, sC, sL, uA, fss}

\* The byte buffer of the in-memory adapter (Cursor<&[u8]>): it has no name,
\* and its list_files() is empty.
mem == [kind |-> "Memory", machine_id |-> 0, scope |-> "",
        file_seqnum |-> 0, head_seqnum |-> 0, head_realtime |-> 0]

\* The contents the buffer of the in-memory adapter may have.
MemContents == {Chain(TRUE, <<1, 2>>), Chain(TRUE, <<>>), BadMagic}


\* The contents a file of each name may have.
ContentsOf(f) ==
    IF f = sA THEN {Chain(TRUE, <<1, 2>>), Chain(TRUE, <<>>)}
    ELSE IF f = sB THEN {Chain(TRUE, <<3, 4>>), Chain(TRUE, <<2>>), Chain(TRUE, <<>>)}
    ELSE IF f = sC THEN {Chain(TRUE, <<5, 6>>)}
    ELSE IF f = sL THEN {Chain(TRUE, <<7, 8>>), Chain(TRUE, <<1>>), BadMagic}
    ELSE IF f = uA THEN {Chain(TRUE, <<9>>)}
    ELSE {BadMagic}

Selections ==
    {JournalSelection(1, "system"), JournalSelection(1, "user"), JournalSelection(2, "system")}

VARIABLES
    dir,            \* storage: the set of files present (by FilenameInfo)
    content,        \* storage: the contents of each file of dir
    faults,         \* storage: whether operations may fail with an I/O error
    open,           \* adapter: Option of the file currently open
    select,         \* JournalReader.select
    current,        \* JournalReader.current: Option<CurrentFile>
    pc,             \* where the running entries() stream or seek is; "idle" if none
    current_seqnum, \* entries(): the local current_seqnum
    array_size,     \* entries(): the local array_size
    out,            \* the entries the running stream has yielded so far
    at_start,       \* adapter: the cursor of the open file is at offset 0
    ret,            \* the last finished call and its result
    input,          \* the argument of a function applied on its own (None if none)
    output          \* Option of the value that function returned

vars == <<dir, content, faults, open, select, current, pc, current_seqnum, array_size, out, ret,
          at_start, input, output>>

\* The state of a reader and its storage.
reader == <<dir, content, faults, open, select, current, pc, current_seqnum, array_size, out, ret,
            at_start>>

\* The state of a function applied on its own.
pure == <<input, output>>

storage == <<dir, content, faults>>

\* The last call, its result ("Pending" while it runs) and, for entries(), the
\* call that finished before it when that call succeeded ("" otherwise).
Ret(op, kind) == [op |-> op, kind |-> kind, prev |-> ""]

\* The contents a directory of the files d may have: every file of d has
\* one of the contents of its name.
RECURSIVE ContentsFor(_)
ContentsFor(d) ==
    IF d = {} THEN {[f \in {} |-> BadMagic]}
    ELSE LET f == CHOOSE f \in d : TRUE
         IN {[g \in d |-> IF g = f THEN c ELSE rest[g]] :
                c \in ContentsOf(f), rest \in ContentsFor(d \ {f})}

\* JournalReader::new
Init ==
    /\ \/ /\ dir \in SUBSET Names
          /\ content \in ContentsFor(dir)
       \/ /\ dir = {sL}
          /\ content \in [dir -> WalkFiles]
       \/ /\ dir = {mem}
          /\ content \in [dir -> MemContents]
    /\ faults \in IF Cardinality(dir) <= MaxFaultyFiles /\ dir # {mem} THEN BOOLEAN ELSE {FALSE}
    /\ open = IF dir = {mem} THEN Some(mem) ELSE None
    /\ select = None
    /\ current = None
    /\ pc = "idle"
    /\ current_seqnum = None
    /\ array_size = 0
    /\ out = <<>>
    /\ at_start = TRUE
    /\ ret = Ret("new", "Ok")
    /\ input = None
    /\ output = None

\* ------------------------------------------------------------------------
\* Results: std::io::Result<T> is a record with the error kind ("" for Ok).
Ok(v) == [err |-> "", val |-> v]
Err(kind) == [err |-> kind, val |-> <<>>]

\* An I/O operation of the storage may fail with an error of its own when the
\* storage is faulty.
FaultChoices == IF faults THEN BOOLEAN ELSE {FALSE}

\* ------------------------------------------------------------------------
\* Storage adapter (on-disk and read-whole adapters).

\* make_prefix: "(machine_id)/(scope)@"
make_prefix(j) == [machine_id |-> j.machine_id, scope |-> j.scope]

\* The machine directory a prefix lies in (prefix.parent()), as the set of the
\* files in it.
MachineDir(d, prefix) == {f \in d : f.machine_id = prefix.machine_id}

\* parse_filename: None for the fss sidecar.
Parses(f) == f.kind # "Fss"

\* list_files(Some(prefix)): `root` is rebound to the parent directory of the
\* prefix, so the starts_with(root) test passes for every file of that
\* directory; every file whose name parses is yielded.
list_files(d, prefix) == {f \in MachineDir(d, prefix) : Parses(f)}

\* read_dir fails with not-found when the machine directory does not exist.
list_files_error(d, prefix) == IF MachineDir(d, prefix) = {} THEN "NotFound" ELSE ""

\* BTreeSet::first() after inserting the files of S in some order: insert keeps
\* the element already present when the new one compares Equal, so the first
\* element is the one of the least elements that was listed first; the order
\* of a directory listing is arbitrary.
BTreeFirst(S) == {f \in S : \A g \in S : FilenameCmp(f, g) <= 0}

\* ------------------------------------------------------------------------
\* Header and object readers.

\* A Header::read that does not look at the magic.
Header_read_any_magic(c) ==
    IF c.len < MIN_HEADER_SIZE THEN Err("UnexpectedEof")
    ELSE Ok([entry_array_offset |-> c.entry_array_offset, compact |-> c.compact])

\* Header::read: at least MIN_HEADER_SIZE bytes are read, the magic is
\* validated, then the header is parsed.
Header_read(c) ==
    IF c.len < MIN_HEADER_SIZE THEN Err("UnexpectedEof")
    ELSE IF c.magic_ok
      THEN Ok([entry_array_offset |-> c.entry_array_offset, compact |-> c.compact])
      ELSE Err("InvalidData")

is_compact(header) == header.compact

sizeof_entry_array_item(header) == IF is_compact(header) THEN 4 ELSE 8

\* ObjectHeader::read_at, by SimpleRead::read_at: a seek to the offset and a
\* read of 16 bytes, with no check of the offset.  At an offset inside the
\* file header the bytes read are those of the header: at the one such offset
\* the files of the model name (5, inside the magic "LPKSHHRH") the type byte
\* is 'H' and the compression byte 'R', which is no DataCompression, so the
\* decoding fails with invalid-data.
ObjectHeader_read_at(c, offset) ==
    IF offset < MIN_HEADER_SIZE /\ offset + OBJECT_HEADER_SIZE <= c.len THEN Err("InvalidData")
    ELSE IF offset \in DOMAIN c.objs /\ offset < c.len THEN Ok(c.objs[offset])
    ELSE Err("UnexpectedEof")

\* A check_type that accepts an object of any type.
check_type_any(r, type) == r

\* ObjectHeader::check_type
check_type(r, type) ==
    IF r.err # "" THEN r
    ELSE IF r.val.type # type THEN Err("InvalidData")
    ELSE r

\* ObjectHeader::payload_size
payload_size(object) ==
    IF object.size >= OBJECT_HEADER_SIZE THEN object.size - OBJECT_HEADER_SIZE ELSE 0

\* entries(): payload_size / array_size of the array object
ArraySize(array_object, header) ==
    (payload_size(array_object) - ENTRY_ARRAY_HEADER_SIZE) \div sizeof_entry_array_item(header)

\* a - b on u64 operands, a build-dependent outcome when a < b: a panic with
\* overflow checks, else the wrapped value 2^64 + val (wrapped = TRUE).
u64_sub(a, b, overflow_checks) ==
    IF a >= b THEN Ok([wrapped |-> FALSE, val |-> a - b])
    ELSE IF overflow_checks THEN Err("Panic")
    ELSE Ok([wrapped |-> TRUE, val |-> a - b])

\* entries(): payload_size and array_size for an array object of any declared
\* size.  The item size divides 2^64: a wrapped array_size is
\* 2^64 / item size + val.
entries_array_size(array_object, header, overflow_checks) ==
    LET payload == u64_sub(payload_size(array_object), ENTRY_ARRAY_HEADER_SIZE, overflow_checks)
    IN IF payload.err # "" THEN payload
       ELSE Ok([ wrapped |-> payload.val.wrapped,
                 val |-> payload.val.val \div sizeof_entry_array_item(header) ])

\* CurrentFile::entry_index_and_offset
entry_index_and_offset(cur) ==
    IF cur.position.index = None THEN None
    ELSE Some(<<cur.position.index[1],
                cur.position.entry_array_offset + OBJECT_HEADER_SIZE + ENTRY_ARRAY_HEADER_SIZE
                  + cur.position.index[1] * sizeof_entry_array_item(cur.header)>>)

\* EntryArrayCompactItem::read_at / EntryArrayRegularItem::read_at: the item
\* stored at a byte offset of the file, located in the item region of the
\* array object that starts at array_offset.
EntryArrayItem_read_at(c, array_offset, offset) ==
    LET base == array_offset + OBJECT_HEADER_SIZE + ENTRY_ARRAY_HEADER_SIZE
        i == (offset - base) \div (IF c.compact THEN 4 ELSE 8)
    IN IF array_offset \in DOMAIN c.objs /\ offset >= base
            /\ i < Len(c.objs[array_offset].items)
         THEN Ok(c.objs[array_offset].items[i + 1])
         ELSE Err("UnexpectedEof")

\* Header::sizeof_entry_object_item: 4 bytes in compact mode, else 16.
sizeof_entry_object_item(compact) == IF compact THEN 4 ELSE 16

\* An Entry::read_at that keeps reading items after a zero item.
Entry_objects_past_zero(items, capacity, compact) ==
    LET RECURSIVE Read(_)
        Read(n) ==
            IF n >= capacity THEN Ok(<<>>)
            ELSE IF n >= Len(items) THEN Err("UnexpectedEof")
            ELSE IF ~compact /\ items[n + 1].hi # 0 THEN Err("InvalidData")
            ELSE IF Read(n + 1).err # "" THEN Read(n + 1)
            ELSE Ok(<<items[n + 1].lo>> \o Read(n + 1).val)
    IN Read(0)

\* Entry::read_at, `for n in 0..capacity`: an item is read, a regular item
\* must fit in 32 bits, a zero item ends the loop, any other is pushed.
Entry_objects(items, capacity, compact) ==
    LET RECURSIVE Read(_)
        Read(n) ==
            IF n >= capacity THEN Ok(<<>>)
            ELSE IF n >= Len(items) THEN Err("UnexpectedEof")
            ELSE IF ~compact /\ items[n + 1].hi # 0 THEN Err("InvalidData")
            ELSE IF items[n + 1].lo = 0 THEN Ok(<<>>)
            ELSE IF Read(n + 1).err # "" THEN Read(n + 1)
            ELSE Ok(<<items[n + 1].lo>> \o Read(n + 1).val)
    IN Read(0)

\* Entry::read_at on the object found at `offset`: the object must be of type
\* Entry, its seqnum nonzero, and its size must hold the entry header.
Entry_read_object(r, offset, compact) ==
    LET object == check_type(r, "Entry")
        capacity == (payload_size(object.val) - ENTRY_OBJECT_HEADER_SIZE)
                      \div sizeof_entry_object_item(compact)
        objects == Entry_objects(object.val.items, capacity, compact)
    IN IF object.err # "" THEN object
       ELSE IF object.val.seqnum = 0 THEN Err("InvalidData")
       ELSE IF payload_size(object.val) < ENTRY_OBJECT_HEADER_SIZE THEN Err("Panic")
       ELSE IF objects.err # "" THEN objects
       ELSE Ok([offset |-> offset, seqnum |-> object.val.seqnum, objects |-> objects.val])

\* Entry::read_at in a file.
Entry_read_at(c, offset) == Entry_read_object(ObjectHeader_read_at(c, offset), offset, c.compact)

\* DataPayload::from_bytes: key reads bytes until one is '=' and drops that
\* byte (running out of bytes is an error), value reads all that is left.
DataPayload_from_bytes(bytes) ==
    LET at == {k \in 1 .. Len(bytes) : bytes[k] = "="}
    IN IF at = {} THEN Err("InvalidData")
       ELSE LET k == CHOOSE k \in at : \A j \in at : k <= j
            IN Ok([key |-> SubSeq(bytes, 1, k - 1), value |-> SubSeq(bytes, k + 1, Len(bytes))])

\* read_exact of `size` bytes at `rel` bytes after the start of the object.
read_some_at(object, rel, size) ==
    IF rel - OBJECT_HEADER_SIZE + size > Len(object.body) THEN Err("UnexpectedEof")
    ELSE Ok(SubSeq(object.body, rel - OBJECT_HEADER_SIZE + 1, rel - OBJECT_HEADER_SIZE + size))

\* Data::read_at.  The size of the payload is computed in u64 as
\* object.payload_size() - payload_rel_offset + OBJECT_HEADER_SIZE, left to
\* right: the subtraction goes below zero when the payload is shorter than
\* OBJECT_HEADER_SIZE bytes.  A build with overflow checks panics there; a
\* build without them wraps, and the addition wraps back.
Data_read_at(object, compact, overflow_checks) ==
    LET header == read_some_at(object, OBJECT_HEADER_SIZE, DATA_OBJECT_HEADER_SIZE)
        compact_header ==
            read_some_at(object, OBJECT_HEADER_SIZE + DATA_OBJECT_COMPACT_PAYLOAD_HEADER_SIZE,
                         DATA_OBJECT_COMPACT_PAYLOAD_HEADER_SIZE)
        payload_rel_offset ==
            IF compact
              THEN OBJECT_HEADER_SIZE + DATA_OBJECT_HEADER_SIZE + DATA_OBJECT_COMPACT_PAYLOAD_HEADER_SIZE
              ELSE OBJECT_HEADER_SIZE + DATA_OBJECT_HEADER_SIZE
        size == payload_size(object) - payload_rel_offset + OBJECT_HEADER_SIZE
        payload == read_some_at(object, payload_rel_offset, size)
    IN IF object.type # "Data" THEN Err("InvalidData")
       ELSE IF object.compression # "None" THEN Err("Panic")
       ELSE IF header.err # "" THEN header
       ELSE IF compact /\ compact_header.err # "" THEN compact_header
       ELSE IF payload_size(object) < payload_rel_offset /\ overflow_checks THEN Err("Panic")
       ELSE IF size < 0 THEN Err("Panic")
       ELSE IF payload.err # "" THEN payload
       ELSE IF DataPayload_from_bytes(payload.val).err # "" THEN Err("InvalidData")
       ELSE Ok([ key |-> DataPayload_from_bytes(payload.val).val.key,
                 value |-> DataPayload_from_bytes(payload.val).val.value,
                 entry_array |-> IF compact THEN Some(compact_header.val) ELSE None ])

\* EntryArrayObjectHeader::read_at after the type check of next_entry_array()
NextEntryArray_read(c, array_offset) ==
    LET r == check_type(ObjectHeader_read_at(c, array_offset), "EntryArray")
    IN IF r.err # "" THEN r
       ELSE Ok(IF r.val.next = 0 THEN None ELSE Some(r.val.next))

\* ------------------------------------------------------------------------
\* JournalReader

\* The contents of the open file.
OpenContent == content[open[1]]

Position(entry_array_offset, index) ==
    [entry_array_offset |-> entry_array_offset, index |-> index]

\* CurrentFile; `file` records the file the header was read from (it is not a
\* field of the program's struct).
CurrentFile(header, position, file) ==
    [header |-> header, position |-> position, file |-> file]

\* load() on the file f: the result is the new value of self.current, or the
\* error with which load() returns, leaving self.current as it is.
Load(f, fail) ==
    IF fail THEN Err("Io")
    ELSE LET h == Header_read(content[f])
         IN IF h.err # "" THEN h
            ELSE Ok(Some(CurrentFile(h.val, Position(h.val.entry_array_offset, Some(0)), f)))

\* The reader is over the in-memory adapter: the storage is one byte buffer.
InMemory == dir = {mem}

\* open(f) succeeded: the on-disk adapter holds a new handle of f; the open()
\* of the in-memory adapter does nothing and returns Ok.
Opened(f) == IF InMemory THEN open ELSE Some(f)

\* Header::read when the cursor is not at offset 0: read_bounded reads from
\* the cursor on, and Header::read does not seek.  In the files of the model
\* the bytes from a cursor inside the file are no header (invalid-data), and
\* a file shorter than MIN_HEADER_SIZE has been read to its end.
Header_read_from_cursor(c) ==
    IF c.len < MIN_HEADER_SIZE THEN Err("UnexpectedEof") ELSE Err("InvalidData")

\* load() on the open file f with the cursor where the reads before left it
\* (load_if_needed() runs load() with no open before it).
LoadFromCursor(f, fail) ==
    IF at_start THEN Load(f, fail)
    ELSE IF fail THEN Err("Io")
    ELSE Header_read_from_cursor(content[f])

\* The cursor after a seek and read of the open file (`fail`: the seek or the
\* read failed on the storage, before or after the cursor moved).
AfterRead(fail) == IF fail THEN {at_start, FALSE} ELSE {FALSE}

\* The cursor after open() and load().  On disk open() gives a new file
\* handle, at offset 0: the header was read, or the read failed on the
\* storage, before or after it consumed bytes.  In memory open() leaves the
\* cursor where it is.
AfterOpenAndLoad(fail) ==
    IF InMemory THEN AfterRead(fail) ELSE IF fail THEN BOOLEAN ELSE {FALSE}

\* open(f) succeeded, then load(): on disk the header of f is read from the
\* start of the new handle, in memory from the cursor of the buffer.
LoadAfterOpen(f, fail) ==
    IF InMemory THEN LoadFromCursor(open[1], fail) ELSE Load(f, fail)

\* A selected_journal() that reports the missing selection as not-found.
selected_journal_not_found == IF select = None THEN Err("NotFound") ELSE Ok(select[1])

\* selected_journal()
selected_journal == IF select = None THEN Err("NotConnected") ELSE Ok(select[1])

Idle == pc = "idle"

\* An open() that drops the file it had before it tries to open the new one.
AfterFailedOpenClosed == None

\* The file the adapter has open after an open() that failed: `File::open`
\* returns the error before self.open is assigned.
AfterFailedOpen == open

\* A close() that releases nothing.
close_keeps_file == open

\* close(): the adapter's open file after the call.
close == None

\* select() returns an error: the file was closed and the selection cleared
\* before the first open.
SelectFailed(kind) ==
    /\ open' = close
    /\ select' = None
    /\ ret' = Ret("select", kind)

\* select(journal)
Select(journal) ==
    /\ Idle
    /\ current' = None
    /\ at_start' = IF InMemory THEN at_start ELSE TRUE
    /\ \E fail \in FaultChoices :
       LET latest == Latest(journal.machine_id, journal.scope)
           prefix == make_prefix(journal)
       IN \/ /\ (latest \in dir \/ InMemory) /\ ~fail
             /\ open' = Opened(latest)
             /\ select' = Some(journal)
             /\ ret' = Ret("select", "Ok")
          \/ /\ fail      \* the open fails, not with not-found
             /\ SelectFailed("Io")
          \/ /\ latest \notin dir /\ ~InMemory
             /\ \/ /\ list_files_error(dir, prefix) # ""
                   /\ SelectFailed(list_files_error(dir, prefix))
                \/ /\ list_files_error(dir, prefix) = ""
                   /\ list_files(dir, prefix) = {}
                   /\ SelectFailed("NotFound")
                \/ /\ list_files_error(dir, prefix) = ""
                   /\ fail      \* the first item of the listing is an error
                   /\ SelectFailed("Io")
                \/ /\ list_files_error(dir, prefix) = ""
                   /\ \E file \in list_files(dir, prefix) :
                        \/ /\ open' = Some(file)
                           /\ select' = Some(journal)
                           /\ ret' = Ret("select", "Ok")
                        \/ /\ fail      \* the open of the listed file fails
                           /\ SelectFailed("Io")
    /\ UNCHANGED <<storage, pc, current_seqnum, array_size, out>>
    /\ UNCHANGED pure

\* seek(Seek::Oldest)
SeekOldest ==
    /\ Idle
    /\ LET sel == selected_journal
       IN \/ /\ sel.err # ""
             /\ ret' = Ret("seek_oldest", sel.err)
             /\ UNCHANGED <<open, current, at_start>>
          \/ /\ sel.err = ""
             /\ LET prefix == make_prefix(sel.val)
                    files == list_files(dir, prefix)
                IN \/ /\ list_files_error(dir, prefix) # ""
                      /\ ret' = Ret("seek_oldest", list_files_error(dir, prefix))
                      /\ UNCHANGED <<open, current, at_start>>
                   \/ /\ list_files_error(dir, prefix) = "" /\ files = {}
                      /\ ret' = Ret("seek_oldest", "NotFound")
                      /\ UNCHANGED <<open, current, at_start>>
                   \/ /\ list_files_error(dir, prefix) = "" /\ files # {} /\ faults
                      /\ ret' = Ret("seek_oldest", "Io")     \* an item of the listing is an error
                      /\ UNCHANGED <<open, current, at_start>>
                   \/ /\ list_files_error(dir, prefix) = ""
                      /\ \E oldest \in BTreeFirst(files) : \E fail \in FaultChoices :
                           \/ /\ fail                  \* the open fails
                              /\ ret' = Ret("seek_oldest", "Io")
                              /\ open' = AfterFailedOpen
                              /\ UNCHANGED <<current, at_start>>
                           \/ /\ open' = Some(oldest)
                              /\ at_start' \in AfterOpenAndLoad(fail)
                              /\ LET l == Load(oldest, fail)
                                 IN IF l.err # ""
                                      THEN /\ ret' = Ret("seek_oldest", l.err)
                                           /\ UNCHANGED current
                                      ELSE /\ ret' = Ret("seek_oldest", "Ok")
                                           /\ current' = l.val
    /\ UNCHANGED <<storage, select, pc, current_seqnum, array_size, out>>
    /\ UNCHANGED pure

\* A next_entry_array() that never follows the chain.
next_entry_array_stays(cur, c, fail) ==
    IF fail THEN Err("Io") ELSE Ok([moved |-> FALSE, cur |-> cur])

\* A next_entry_array() that moves to the next array and keeps the index.
next_entry_array_keeps_index(cur, c, fail) ==
    IF fail THEN Err("Io")
    ELSE LET r == NextEntryArray_read(c, cur.position.entry_array_offset)
         IN IF r.err # "" THEN r
            ELSE IF r.val # None
              THEN Ok([moved |-> TRUE,
                       cur |-> [cur EXCEPT !.position.entry_array_offset = r.val[1]]])
              ELSE Ok([moved |-> FALSE, cur |-> cur])

\* next_entry_array() on the loaded file cur, read from the contents c: the
\* error, or whether the position moved and the new value of self.current.
next_entry_array(cur, c, fail) ==
    IF fail THEN Err("Io")
    ELSE LET r == NextEntryArray_read(c, cur.position.entry_array_offset)
         IN IF r.err # "" THEN r
            ELSE IF r.val # None
              THEN Ok([moved |-> TRUE,
                       cur |-> [cur EXCEPT !.position = Position(r.val[1], Some(0))]])
              ELSE Ok([moved |-> FALSE, cur |-> cur])

\* seek(Seek::Newest) up to the call of skip_to_end()
SeekNewest ==
    /\ Idle
    /\ LET sel == selected_journal
       IN \/ /\ sel.err # ""
             /\ ret' = Ret("seek_newest", sel.err)
             /\ UNCHANGED <<open, current, pc, at_start>>
          \/ /\ sel.err = ""
             /\ \E fail \in FaultChoices :
                LET latest == Latest(sel.val.machine_id, sel.val.scope)
                IN \/ /\ latest \notin dir /\ ~InMemory
                      /\ ret' = Ret("seek_newest", "NotFound")
                      /\ open' = AfterFailedOpen
                      /\ UNCHANGED <<current, pc, at_start>>
                   \/ /\ fail
                      /\ ret' = Ret("seek_newest", "Io")
                      /\ open' = AfterFailedOpen
                      /\ UNCHANGED <<current, pc, at_start>>
                   \/ /\ latest \in dir \/ InMemory
                      /\ open' = Opened(latest)
                      /\ at_start' \in AfterOpenAndLoad(fail)
                      /\ LET l == LoadAfterOpen(latest, fail)
                         IN IF l.err # ""
                              THEN /\ ret' = Ret("seek_newest", l.err)
                                   /\ UNCHANGED <<current, pc>>
                              ELSE /\ ret' = Ret("seek_newest", "Pending")
                                   /\ current' = l.val
                                   /\ pc' = "skip"
    /\ UNCHANGED <<storage, select, current_seqnum, array_size, out>>
    /\ UNCHANGED pure

\* skip_to_end(): one turn of `while self.next_entry_array().await? {}`, and
\* the assignment of index after the loop.
SkipToEnd ==
    /\ pc = "skip"
    /\ \E fail \in FaultChoices :
       /\ at_start' \in AfterRead(fail)
       /\ LET r == next_entry_array(current[1], OpenContent, fail)
          IN IF r.err # ""
               THEN /\ ret' = Ret("seek_newest", r.err)
                    /\ pc' = "idle"
                    /\ UNCHANGED current
             ELSE IF r.val.moved
               THEN /\ current' = Some(r.val.cur)
                    /\ UNCHANGED <<pc, ret>>
             ELSE /\ current' = Some([r.val.cur EXCEPT !.position.index = None])
                  /\ pc' = "idle"
                  /\ ret' = Ret("seek_newest", "Ok")
    /\ UNCHANGED <<storage, open, select, current_seqnum, array_size, out>>
    /\ UNCHANGED pure

\* seek(Seek::Timestamp | Seqnum | BootId | Entries): the selection is checked,
\* then the match arm is `todo!()`, which panics.
SeekTodo ==
    /\ Idle
    /\ ret' = Ret("seek_todo", IF selected_journal.err # ""
                                 THEN selected_journal.err ELSE "Panic")
    /\ UNCHANGED <<storage, open, select, current, pc, current_seqnum, array_size, out, at_start>>
    /\ UNCHANGED pure

\* ------------------------------------------------------------------------
\* entries(): the stream is a coroutine; pc is the point it has reached.

\* The stream ends with an error item.
Fail(kind) ==
    /\ pc' = "done"
    /\ ret' = [ret EXCEPT !.kind = kind]

\* entries() is called: nothing runs until the stream is polled.
Entries ==
    /\ Idle
    /\ pc' = "start"
    /\ current_seqnum' = None
    /\ array_size' = 0
    /\ out' = <<>>
    /\ ret' = [op |-> "entries", kind |-> "Pending",
               prev |-> IF ret.kind = "Ok" THEN ret.op ELSE ""]
    /\ UNCHANGED <<storage, open, select, current, at_start>>
    /\ UNCHANGED pure

\* self.load_if_needed().await?
EntriesLoad ==
    /\ pc = "start"
    /\ \E fail \in FaultChoices :
       IF current # None
         THEN /\ pc' = "array"
              /\ UNCHANGED <<current, ret, at_start>>
       ELSE IF open = None
         THEN /\ Fail("NotConnected")
              /\ UNCHANGED <<current, at_start>>
       ELSE LET l == LoadFromCursor(open[1], fail)
            IN /\ at_start' \in AfterRead(fail)
               /\ IF l.err # ""
                    THEN /\ Fail(l.err)
                         /\ UNCHANGED current
                    ELSE /\ current' = l.val
                         /\ pc' = "array"
                         /\ UNCHANGED ret
    /\ UNCHANGED <<storage, open, select, current_seqnum, array_size, out>>
    /\ UNCHANGED pure

\* Top of `loop { // entry arrays`: the array object header is read and
\* checked, array_size is computed.
EntriesArray ==
    /\ pc = "array"
    /\ \E fail \in FaultChoices :
       /\ at_start' \in (IF open = None THEN {at_start} ELSE AfterRead(fail))
       /\ LET r == IF fail THEN Err("Io")
                   ELSE IF open = None THEN Err("NotConnected")
                   ELSE check_type(ObjectHeader_read_at(OpenContent,
                                     current[1].position.entry_array_offset), "EntryArray")
          IN IF r.err # ""
               THEN /\ Fail(r.err)
                    /\ UNCHANGED array_size
               ELSE /\ array_size' = ArraySize(r.val, current[1].header)
                    /\ pc' = "item"
                    /\ UNCHANGED ret
    /\ UNCHANGED <<storage, open, select, current, current_seqnum, out>>
    /\ UNCHANGED pure

\* An end of array that rewinds the index to the first item.
EndOfArrayRewinds == Some(0)

\* `current.position.index = None`: the walker is at the end of the entry
\* array, by a zero item or by the bounds.
EndOfArray == None

\* What `out` records of a yielded entry: the entry, the file it was read
\* from and the position (array, index) it was found at.
Yielded(entry, cur) ==
    [file |-> open[1], offset |-> entry.offset, seqnum |-> entry.seqnum,
     objects |-> entry.objects,
     array |-> cur.position.entry_array_offset, index |-> cur.position.index[1]]

\* One turn of `while let Some(..) = current.entry_index_and_offset()` up to
\* the yield of the entry.
EntriesItem ==
    /\ pc = "item"
    /\ \E fail \in FaultChoices :
       /\ at_start' \in (IF open = None \/ entry_index_and_offset(current[1]) = None
               THEN {at_start} ELSE AfterRead(fail))
       /\ LET cur == current[1]
              io == entry_index_and_offset(cur)
          IN IF io = None
               THEN /\ pc' = "next"
                    /\ UNCHANGED <<current, current_seqnum, out, ret>>
             ELSE LET item == IF fail THEN Err("Io")
                              ELSE IF open = None THEN Err("NotConnected")
                              ELSE EntryArrayItem_read_at(OpenContent,
                                     cur.position.entry_array_offset, io[1][2])
                  IN IF item.err # ""
                       THEN /\ Fail(item.err)
                            /\ UNCHANGED <<current, current_seqnum, out>>
                     ELSE IF item.val = 0
                       THEN /\ current' = Some([cur EXCEPT !.position.index = EndOfArray])
                            /\ pc' = "next"
                            /\ UNCHANGED <<current_seqnum, out, ret>>
                     ELSE LET entry == Entry_read_at(OpenContent, item.val)
                          IN IF entry.err # ""
                               THEN /\ Fail(entry.err)
                                    /\ UNCHANGED <<current, current_seqnum, out>>
                               ELSE /\ current_seqnum' = Some(entry.val.seqnum)
                                    /\ out' = IF Len(out) < MaxOut
                                                THEN Append(out, Yielded(entry.val, cur))
                                                ELSE out
                                    /\ pc' = "yielded"
                                    /\ UNCHANGED <<current, ret>>
    /\ UNCHANGED <<storage, open, select, array_size>>
    /\ UNCHANGED pure

\* The file offsets at which one turn of the item loop of entries() seeks and
\* reads (SimpleRead::read_at): the offset of the array item and, for a
\* nonzero item, the offset it holds, where Entry::read_at reads the object
\* header.
EntriesItemReads ==
    LET cur == current[1]
        io == entry_index_and_offset(cur)
        item == EntryArrayItem_read_at(OpenContent, cur.position.entry_array_offset, io[1][2])
    IN IF io = None THEN {}
       ELSE {io[1][2]} \cup (IF item.err = "" /\ item.val # 0 THEN {item.val} ELSE {})

\* An index that is not bumped.
NextIndexStuck(entry_index) == entry_index

\* `*(current.position.index.as_mut().unwrap()) += 1`
NextIndex(entry_index) == entry_index + 1

\* The stream is polled again after a yield: the index is bumped, or the end
\* of the array is noted.
EntriesResume ==
    /\ pc = "yielded"
    /\ LET cur == current[1]
           entry_index == cur.position.index[1]
       IN IF entry_index + 1 < array_size
            THEN /\ current' = Some([cur EXCEPT !.position.index = Some(NextIndex(entry_index))])
                 /\ pc' = "item"
            ELSE /\ current' = Some([cur EXCEPT !.position.index = EndOfArray])
                 /\ pc' = "next"
    /\ UNCHANGED <<storage, open, select, current_seqnum, array_size, out, ret, at_start>>
    /\ UNCHANGED pure

\* `if !self.next_entry_array().await? { break; }`
EntriesNextArray ==
    /\ pc = "next"
    /\ \E fail \in FaultChoices :
       /\ at_start' \in (IF open = None THEN {at_start} ELSE AfterRead(fail))
       /\ LET r == IF open = None THEN Err("NotConnected")
                   ELSE next_entry_array(current[1], OpenContent, fail)
          IN IF r.err # ""
               THEN /\ Fail(r.err)
                    /\ UNCHANGED current
               ELSE /\ current' = Some(r.val.cur)
                    /\ pc' = IF r.val.moved THEN "array" ELSE "files"
                    /\ UNCHANGED ret
    /\ UNCHANGED <<storage, open, select, current_seqnum, array_size, out>>
    /\ UNCHANGED pure

\* What the cross-file step collects from list_files: the errors of the
\* listing are dropped by the filter, and a listing ends at its first error.
Listings(d, prefix) ==
    IF faults THEN SUBSET list_files(d, prefix) ELSE {list_files(d, prefix)}

\* The archived files of a listing whose head_seqnum is greater than seqnum.
NextFileCandidates(listed, seqnum) ==
    {f \in listed : is_archived(f) /\ f.head_seqnum > seqnum}

\* open(f) then load() in a cross-file step of entries()
OpenAndLoad(f, fail_open, fail_load) ==
    IF f \notin dir
      THEN /\ Fail("NotFound")
           /\ UNCHANGED <<open, current, at_start>>
    ELSE IF fail_open
      THEN /\ Fail("Io")
           /\ UNCHANGED <<open, current, at_start>>
    ELSE /\ open' = Some(f)
         /\ at_start' \in AfterOpenAndLoad(fail_load)
         /\ LET l == Load(f, fail_load)
            IN IF l.err # ""
                 THEN /\ Fail(l.err)
                      /\ UNCHANGED current
                 ELSE /\ current' = l.val
                      /\ pc' = "array"
                      /\ UNCHANGED ret

\* The end of the stream without an error.
Finish ==
    /\ pc' = "done"
    /\ ret' = [ret EXCEPT !.kind = "Ok"]

\* Bottom of `loop { // files`: the walker has no more entry arrays.
EntriesNextFile ==
    /\ pc = "files"
    /\ IF current_seqnum = None
         THEN /\ Finish
              /\ UNCHANGED <<open, current, at_start>>
       ELSE LET sel == selected_journal
            IN IF sel.err # ""
                 THEN /\ Fail(sel.err)
                      /\ UNCHANGED <<open, current, at_start>>
               ELSE \E listed \in Listings(dir, make_prefix(sel.val)) :
                    \E fail_open \in FaultChoices : \E fail_load \in FaultChoices :
                    LET cands == NextFileCandidates(listed, current_seqnum[1])
                        current_file_is_archived ==
                            open # None /\ Parses(open[1]) /\ is_archived(open[1])
                    IN IF cands # {}
                         THEN \E next_file \in BTreeFirst(cands) :
                                OpenAndLoad(next_file, fail_open, fail_load)
                       ELSE IF current_file_is_archived
                         THEN OpenAndLoad(Latest(sel.val.machine_id, sel.val.scope),
                                          fail_open, fail_load)
                       ELSE /\ Finish
                            /\ UNCHANGED <<open, current, at_start>>
    /\ UNCHANGED <<storage, select, current_seqnum, array_size, out>>
    /\ UNCHANGED pure

\* The stream is dropped by its caller, between two polls or after its end.
Drop ==
    /\ pc \in {"start", "yielded", "done"}
    /\ pc' = "idle"
    /\ current_seqnum' = None
    /\ array_size' = 0
    /\ out' = <<>>
    /\ UNCHANGED <<storage, open, select, current, ret, at_start>>
    /\ UNCHANGED pure

\* Data::read_at at an offset of a file.
Data_read_file(c, offset, compact, overflow_checks) ==
    LET r == ObjectHeader_read_at(c, offset)
        bytes == DataObject("Data", "None", c.compact, EntryDataPayload(r.val.seqnum))
    IN IF r.err # "" THEN r
       ELSE IF r.val.type # "Data" THEN Data_read_at(r.val, compact, overflow_checks)
       ELSE Data_read_at([bytes EXCEPT !.size = r.val.size], compact, overflow_checks)

\* Entry::data on the file c: the Data objects read at the offsets of
\* `objects`, in order, up to the first error, and that error ("" if none).
Entry_data(c, objects, compact, overflow_checks) ==
    LET RECURSIVE Read(_)
        Read(i) ==
            IF i > Len(objects) THEN [data |-> <<>>, err |-> ""]
            ELSE LET d == Data_read_file(c, objects[i], compact, overflow_checks)
                 IN IF d.err # "" THEN [data |-> <<>>, err |-> d.err]
                    ELSE [data |-> <<d.val>> \o Read(i + 1).data, err |-> Read(i + 1).err]
    IN Read(1)

\* entry_data(entry), read to its end: the header is that of self.current
\* (a panic if there is none) and the reads go to self.io, the open file.
entry_data(entry, fail, overflow_checks) ==
    IF current = None THEN [data |-> <<>>, err |-> "Panic"]
    ELSE IF entry.objects = <<>> THEN [data |-> <<>>, err |-> ""]
    ELSE IF open = None THEN [data |-> <<>>, err |-> "NotConnected"]
    ELSE IF fail THEN [data |-> <<>>, err |-> "Io"]
    ELSE Entry_data(OpenContent, entry.objects, is_compact(current[1].header), overflow_checks)

\* The caller drops the stream of entries (which borrows the reader) and reads
\* the data of one of the entries it has received, as main() does with the
\* last one.
EntryData ==
    /\ pc \in {"yielded", "done"}
    /\ \E i \in 1 .. Len(out) : \E fail \in FaultChoices : \E overflow_checks \in BOOLEAN :
          /\ output' = Some([entry |-> out[i],
                             result |-> entry_data(out[i], fail, overflow_checks)])
          /\ at_start' \in (IF current = None \/ out[i].objects = <<>> \/ open = None
                               THEN {at_start} ELSE AfterRead(fail))
    /\ pc' = "data"
    /\ current_seqnum' = None
    /\ array_size' = 0
    /\ out' = <<>>
    /\ UNCHANGED <<storage, open, select, current, ret, input>>

\* The caller drops the stream of data and the entry.
EntryDataDrop ==
    /\ pc = "data"
    /\ pc' = "idle"
    /\ output' = None
    /\ UNCHANGED <<storage, open, select, current, current_seqnum, array_size, out, ret,
                   at_start, input>>

\* The journal files are removed from the directory (a vacuum) between two
\* operations of the reader: every listing reads the directory anew, and a
\* file that is open stays readable.
Vacuum ==
    /\ Idle
    /\ ~InMemory
    /\ dir \ {fss} # {}
    /\ dir' = dir \cap {fss}
    /\ ret' = Ret("vacuum", "Ok")
    /\ UNCHANGED <<content, faults, open, select, current, pc, current_seqnum, at_start,
                   array_size, out>>
    /\ UNCHANGED pure

Next ==
    \/ \E journal \in Selections : Select(journal)
    \/ SeekOldest
    \/ SeekNewest
    \/ SeekTodo
    \/ SkipToEnd
    \/ Entries
    \/ EntriesLoad
    \/ EntriesArray
    \/ EntriesItem
    \/ EntriesResume
    \/ EntriesNextArray
    \/ EntriesNextFile
    \/ Drop
    \/ EntryData
    \/ EntryDataDrop
    \/ Vacuum

Spec == Init /\ [][Next]_vars

\* The steps a stream takes when it is polled, and the turns of the loop of
\* skip_to_end(): a stream that is polled repeatedly, and a seek that is
\* awaited, keep taking them.
Polled ==
    \/ EntriesLoad
    \/ EntriesArray
    \/ EntriesItem
    \/ EntriesResume
    \/ EntriesNextArray
    \/ EntriesNextFile
    \/ SkipToEnd

FairSpec == Init /\ [][Next]_vars /\ WF_vars(Polled)

\* ------------------------------------------------------------------------
\* Filenames.  A path is a sequence of characters; "/" separates components.

HexDigits == <<"0", "1", "2", "3", "4", "5", "6", "7", "8", "9", "a", "b", "c", "d", "e", "f">>

Str_journal == <<"j", "o", "u", "r", "n", "a", "l">>

\* hex::encode(n.to_be_bytes()) for an integer type of the given width in bytes
hex_encode(n, bytes) ==
    LET RECURSIVE Digits(_, _)
        Digits(v, k) == IF k = 0 THEN <<>>
                        ELSE Digits(v \div 16, k - 1) \o <<HexDigits[(v % 16) + 1]>>
    IN Digits(n, 2 * bytes)

\* hex::decode(str).ok()?.try_into().ok()? followed by from_be_bytes, for an
\* integer type of the given width in bytes: None unless str is that many
\* pairs of hex digits.
hex_decode(str, bytes) ==
    LET Value(ch) == CHOOSE d \in 0 .. 15 : HexDigits[d + 1] = ch
        RECURSIVE Num(_)
        Num(k) == IF k = 0 THEN 0 ELSE 16 * Num(k - 1) + Value(str[k])
    IN IF Len(str) = 2 * bytes /\ \A k \in 1 .. Len(str) : \E d \in 1 .. 16 : HexDigits[d] = str[k]
         THEN Some(Num(Len(str)))
         ELSE None

\* A split at the last ch (rsplit_once).
split_once_last(str, ch) ==
    LET at == {k \in 1 .. Len(str) : str[k] = ch}
    IN IF at = {} THEN None
       ELSE LET k == CHOOSE k \in at : \A j \in at : k >= j
            IN Some(<<SubSeq(str, 1, k - 1), SubSeq(str, k + 1, Len(str))>>)

\* str::split_once(ch): None, or the parts before and after the first ch.
split_once(str, ch) ==
    LET at == {k \in 1 .. Len(str) : str[k] = ch}
    IN IF at = {} THEN None
       ELSE LET k == CHOOSE k \in at : \A j \in at : k <= j
            IN Some(<<SubSeq(str, 1, k - 1), SubSeq(str, k + 1, Len(str))>>)

\* PathBuf::join: an absolute path replaces the path it is joined to.
Path_join(base, path) ==
    IF path # <<>> /\ path[1] = "/" THEN path ELSE base \o <<"/">> \o path

\* Path::components(): the parts between separators; empty parts and "." parts
\* are dropped, and an absolute path starts with its root directory.
Path_components(path) ==
    LET RECURSIVE Split(_)
        Split(str) == LET p == split_once(str, "/")
                      IN IF p = None THEN <<str>> ELSE <<p[1][1]>> \o Split(p[1][2])
        parts == Split(path)
        kept == SelectSeq(parts, LAMBDA c : c # <<>> /\ c # <<".">>)
    IN IF path # <<>> /\ path[1] = "/" THEN <<<<"/">>>> \o kept ELSE kept

\* Timestamp: a count of nanoseconds since the epoch.
Timestamp_as_microsecond(t) == IF t >= 0 THEN t \div 1000 ELSE -((-t) \div 1000)
Timestamp_from_microsecond(us) == us * 1000

\* make_filename
make_filename(info) ==
    IF info.kind = "Latest"
      THEN Path_join(hex_encode(info.machine_id, 16), info.scope \o <<".">> \o Str_journal)
      ELSE Path_join(hex_encode(info.machine_id, 16),
             info.scope \o <<"@">> \o hex_encode(info.file_seqnum, 16)
               \o <<"-">> \o hex_encode(info.head_seqnum, 8)
               \o <<"-">> \o hex_encode(
                      \* u64::try_from(..).unwrap_or_default()
                      IF Timestamp_as_microsecond(info.head_realtime) >= 0
                        THEN Timestamp_as_microsecond(info.head_realtime) ELSE 0, 8)
               \o <<".">> \o Str_journal)

\* split_once(ch).unwrap_or((str, "")): the part before the first ch
Before(str, ch) == IF split_once(str, ch) = None THEN str ELSE split_once(str, ch)[1][1]

\* parse_filename: Option<FilenameInfo>
parse_filename(path) ==
    LET components == Path_components(path)
        n == Len(components)
    IN IF n < 2 THEN None
       ELSE LET filename == components[n]
                machine_id == hex_decode(components[n - 1], 16)
                at == split_once(filename, "@")
            IN IF machine_id = None THEN None
               ELSE IF at = None
                 THEN IF Before(filename, ".") = <<"f", "s", "s">> THEN None
                      ELSE Some(Latest(machine_id[1], Before(filename, ".")))
               ELSE LET scope == at[1][1]
                        r1 == split_once(at[1][2], "-")
                    IN IF r1 = None THEN None
                       ELSE LET r2 == split_once(r1[1][2], "-")
                            IN IF r2 = None THEN None
                               ELSE LET file_seqnum == hex_decode(r1[1][1], 16)
                                        head_seqnum == hex_decode(r2[1][1], 8)
                                        head_realtime == hex_decode(Before(r2[1][2], "."), 8)
                                    IN IF \/ file_seqnum = None \/ head_seqnum = None
                                          \/ head_realtime = None
                                          \/ file_seqnum = Some(0) \/ head_seqnum = Some(0)
                                         THEN None
                                         ELSE Some(Archived(machine_id[1], scope, file_seqnum[1],
                                                    head_seqnum[1],
                                                    Timestamp_from_microsecond(head_realtime[1])))

\* make_prefix, as a path: "(machine_id)/(scope)@"
make_prefix_path(j) == Path_join(hex_encode(j.machine_id, 16), j.scope \o <<"@">>)

\* Path::parent(): the path without its last component (None if it has none)
Path_parent(path) ==
    IF split_once_last(path, "/") = None THEN None
    ELSE Some(split_once_last(path, "/")[1][1])

\* str::starts_with
starts_with(str, prefix) ==
    Len(prefix) <= Len(str) /\ SubSeq(str, 1, Len(prefix)) = prefix

\* list_files(Some(prefix)) of the on-disk and read-whole adapters over a
\* directory tree given as the set of the relative paths of its files: root
\* is the parent of the prefix; the files that read_dir(root) returns are
\* kept when their path starts with root and their name parses.
list_files_paths(paths, prefix) ==
    LET root == IF Path_parent(prefix) = None THEN prefix ELSE Path_parent(prefix)[1]
        read_dir == {path \in paths : Path_parent(path) = Some(root)}
    IN {[path |-> path, file |-> parse_filename(path)[1]] :
          path \in {q \in read_dir : starts_with(q, root) /\ parse_filename(q) # None}}

\* ------------------------------------------------------------------------
\* Functions applied on their own: the input is drawn from a bounded set, one
\* action applies the function and records what it returned.

\* No reader: the reader's variables rest.
NoReader ==
    /\ dir = {}
    /\ content = [f \in {} |-> BadMagic]
    /\ faults = FALSE
    /\ open = None
    /\ select = None
    /\ current = None
    /\ pc = "idle"
    /\ current_seqnum = None
    /\ array_size = 0
    /\ out = <<>>
    /\ at_start = TRUE
    /\ ret = Ret("new", "Ok")

\* The filenames compared and listed: machine ids, file_seqnum, head_seqnum and
\* head_realtime in 1 .. MaxId, scopes "system" and "user".
Scopes == {"system", "user"}

FilenameInfos ==
    {Archived(m, s, fs, hs, hr) : m \in 1 .. MaxId, s \in Scopes, fs \in 1 .. MaxId,
                                  hs \in 1 .. MaxId, hr \in 1 .. MaxId}
        \cup {Latest(m, s) : m \in 1 .. MaxId, s \in Scopes}

\* The listings sorted: sequences without repetition of at most MaxListing files.
ListedNames == {sA, sB, sC, sL, uA, Latest(2, "system")}

Listings_upto(n) ==
    UNION {{q \in [1 .. k -> ListedNames] : \A i, j \in 1 .. k : i # j => q[i] # q[j]}
             : k \in 0 .. n}

SortedInputs == {[fn |-> "sorted", listing |-> q] : q \in Listings_upto(MaxListing)}

\* The FilenameInfo values formatted and parsed back: scopes are the strings of
\* at most MaxScopeLen characters over ScopeChars and the scope "fss";
\* timestamps are before and after the epoch, with and without a part below
\* the microsecond.
ScopeChars == {"s", ".", "@", "-", "/"}

ScopeStrings ==
    UNION {[1 .. k -> ScopeChars] : k \in 0 .. MaxScopeLen} \cup {<<"f", "s", "s">>}

Timestamps == {k * 500 : k \in -2 .. 2 * MaxId}

RoundTripInputs ==
    {[fn |-> "roundtrip", info |-> Latest(m, s)] : m \in 1 .. MaxId, s \in ScopeStrings}
        \cup {[fn |-> "roundtrip", info |-> Archived(m, s, fs, hs, hr)] :
                 m \in 1 .. MaxId, s \in ScopeStrings, fs \in 1 .. MaxId,
                 hs \in 1 .. MaxId, hr \in Timestamps}

\* The directory trees listed: the journal files of two scopes of machine 1,
\* files of machine 2, the fss sidecar and a file whose name does not parse.
TreePaths ==
    {make_filename(f) : f \in {Archived(1, <<"s">>, 1, 1, 1000), Latest(1, <<"s">>),
                               Archived(1, <<"u">>, 1, 2, 1000), Latest(1, <<"u">>),
                               Archived(2, <<"s">>, 1, 1, 1000), Latest(2, <<"s">>)}}
        \cup {Path_join(hex_encode(1, 16), <<"f", "s", "s">>),
              Path_join(hex_encode(1, 16), <<"s", "@", "1">>)}

ListInputs ==
    {[fn |-> "list", paths |-> t, journal |-> JournalSelection(m, sc)] :
        t \in SUBSET TreePaths, m \in 1 .. 2, sc \in {<<"s">>, <<"u">>}}

CmpInputs == {[fn |-> "cmp", a |-> a, b |-> b] : a \in FilenameInfos, b \in FilenameInfos}

\* ------------------------------------------------------------------------
\* Header decoding.  A raw header is the leading bytes of a file, described by
\* what the decoder looks at: whether the magic matches, the two flag words as
\* sets of bit positions of a u32, the state byte, the declared header_size,
\* the names of the NonZero-typed fields whose bytes are all zero, and the
\* number of bytes the file holds.  Timestamps are inside the range
\* of Timestamp.
MAX_HEADER_SIZE == 272

CompatibleFlag == {0, 1, 2}

IncompatibleFlag == {0, 1, 2, 3, 4}

\* FlagSet::new refuses a word with a bit outside the enum.
FlagSet_new(bits, known) ==
    IF bits \subseteq known THEN Ok(bits) ELSE Err("InvalidBits")

FlagSet_new_truncated(bits, known) == bits \cap known

IncompatibleFlag_deku_reader(bits) ==
    IF FlagSet_new(bits, IncompatibleFlag).err # ""
      THEN Err("Assertion")
      ELSE FlagSet_new(bits, IncompatibleFlag)

CompatibleFlag_deku_reader(bits) == Ok(FlagSet_new_truncated(bits, CompatibleFlag))

\* State: Offline = 0, Online = 1, Archived = 2.
State == 0 .. 2

\* The fields before offset 208 that are declared NonZero or Option<NonZero>:
\* the derived reader of both refuses an all-zero value.
FixedNonZero ==
    { "tail_entry_boot_id", "seqnum_id", "arena_size", "data_hash_table_offset",
      "data_hash_table_size", "field_hash_table_offset", "field_hash_table_size",
      "tail_object_offset", "n_objects", "tail_entry_seqnum", "head_entry_seqnum",
      "entry_array_offset", "tail_entry_monotonic" }

\* The fields after offset 208, in declaration order: read when header_size
\* is greater than `after`, ending at byte `end`.
OptionalFields ==
    << [name |-> "n_data",                     after |-> 208, end |-> 216, nonzero |-> FALSE],
       [name |-> "n_fields",                   after |-> 216, end |-> 224, nonzero |-> FALSE],
       [name |-> "n_tags",                     after |-> 224, end |-> 232, nonzero |-> FALSE],
       [name |-> "n_entry_arrays",             after |-> 232, end |-> 240, nonzero |-> FALSE],
       [name |-> "data_hash_chain_depth",      after |-> 240, end |-> 248, nonzero |-> FALSE],
       [name |-> "field_hash_chain_depth",     after |-> 248, end |-> 256, nonzero |-> FALSE],
       [name |-> "tail_entry_array_offset",    after |-> 256, end |-> 260, nonzero |-> TRUE],
       [name |-> "tail_entry_array_n_entries", after |-> 260, end |-> 264, nonzero |-> TRUE],
       [name |-> "tail_entry_offset",          after |-> 264, end |-> 272, nonzero |-> TRUE] >>

\* The optional fields whose condition holds.
Gated(header_size) ==
    {i \in DOMAIN OptionalFields : header_size > OptionalFields[i].after}

\* realtime_deku_reader: the stored microseconds as a Timestamp, always
\* wrapped in Some (values within the range of Timestamp).
realtime_deku_reader(value) == Ok(Some(Timestamp_from_microsecond(value)))

\* The 64-bit value stored in a realtime field of the raw header.
StoredRealtime(raw, name) == IF name \in raw.zero THEN 0 ELSE 1

\* Header::from_bytes on the first n bytes of the raw header.
Header_from_bytes(raw, n) ==
    IF ~raw.magic_ok THEN Err("InvalidData")
    ELSE IF IncompatibleFlag_deku_reader(raw.incompatible).err # "" THEN Err("InvalidData")
    ELSE IF raw.state \notin State THEN Err("InvalidData")
    ELSE IF raw.header_size = 0 \/ raw.zero \cap FixedNonZero # {} THEN Err("InvalidData")
    ELSE IF \E i \in Gated(raw.header_size) :
                \/ OptionalFields[i].end > n
                \/ OptionalFields[i].nonzero /\ OptionalFields[i].name \in raw.zero
      THEN Err("InvalidData")
    ELSE Ok([ compatible_flags   |-> CompatibleFlag_deku_reader(raw.compatible).val,
              incompatible_flags |-> IncompatibleFlag_deku_reader(raw.incompatible).val,
              header_size        |-> raw.header_size,
              head_entry_realtime |->
                  realtime_deku_reader(StoredRealtime(raw, "head_entry_realtime")).val,
              tail_entry_realtime |->
                  realtime_deku_reader(StoredRealtime(raw, "tail_entry_realtime")).val,
              present            |-> {OptionalFields[i].name : i \in Gated(raw.header_size)} ])

\* read_bounded(min, max): at least min bytes or UnexpectedEof, at most max.
read_bounded(len, min, max) ==
    IF len < min THEN Err("UnexpectedEof") ELSE Ok(IF len < max THEN len ELSE max)

\* Header::read
Header_parse(raw) ==
    IF read_bounded(raw.len, MIN_HEADER_SIZE, MAX_HEADER_SIZE).err # ""
      THEN read_bounded(raw.len, MIN_HEADER_SIZE, MAX_HEADER_SIZE)
      ELSE Header_from_bytes(raw, read_bounded(raw.len, MIN_HEADER_SIZE, MAX_HEADER_SIZE).val)

RawHeader(compatible, incompatible, state, header_size, zero, len) ==
    [ magic_ok |-> TRUE, compatible |-> compatible, incompatible |-> incompatible,
      state |-> state, header_size |-> header_size, zero |-> zero, len |-> len ]

\* Bit positions of a flag word: the known ones, one above them, the top one.
FlagBits == 0 .. 5 \cup {31}

HeaderSizes == {208, 216, 224, 232, 240, 248, 256, 260, 264, 272}

\* Headers of journals with entries (nothing zero), of a journal without
\* entries (the tail and head fields zero) and of a journal whose last entry
\* array is not recorded.
ZeroChoices ==
    { {},
      {"head_entry_realtime"},
      {"tail_entry_realtime"},
      {"tail_entry_array_offset"},
      {"tail_entry_array_n_entries"},
      {"tail_entry_offset"},
      {"tail_entry_boot_id", "tail_entry_seqnum", "head_entry_seqnum", "tail_entry_monotonic",
       "tail_entry_array_n_entries", "tail_entry_offset"} }

FlagInputs ==
    { [fn |-> "header", raw |-> RawHeader(c, i, 1, 272, z, 272)] :
        c \in SUBSET {0, 1, 2, 3, 31}, i \in SUBSET FlagBits, z \in {{}, {"tail_entry_offset"}} }

SizeInputs ==
    { [fn |-> "header", raw |-> RawHeader({1}, {2, 4}, st, hs, z, len)] :
        st \in {1, 3}, hs \in HeaderSizes \cup {0, 212, 280}, z \in ZeroChoices,
        len \in {200, 208, 240, 264, 272, 300} }

HeaderInputs ==
    FlagInputs \cup SizeInputs
      \cup {[fn |-> "header", raw |-> [RawHeader({}, {}, 1, 272, {}, len) EXCEPT !.magic_ok = FALSE]] :
                len \in {200, 272}}

\* ------------------------------------------------------------------------
\* Data objects.  An object is seen as its ObjectHeader (type, compression,
\* size) and `body`, the bytes of the file that follow the 16-byte header.
MaxPayloadLen == 3

PayloadBytes == {"k", "=", "v"}

ShortPayloads == UNION {[1 .. n -> PayloadBytes] : n \in 0 .. MaxPayloadLen}

\* Payloads shorter than OBJECT_HEADER_SIZE bytes and payloads at least that
\* long.
Payloads ==
    ShortPayloads \cup {p \o [i \in 1 .. OBJECT_HEADER_SIZE |-> "v"] : p \in ShortPayloads}
                  \cup {[i \in 1 .. OBJECT_HEADER_SIZE |-> "k"]}


DataInputs ==
    { [fn |-> "data", payload |-> p, is_compact |-> c, object |-> DataObject(t, z, c, p)] :
        p \in Payloads, c \in BOOLEAN, t \in {"Data", "Entry"}, z \in {"None", "Zstd"} }

\* ------------------------------------------------------------------------
\* Entry objects read on their own: an object of a declared size whose item
\* region holds `items` up to the end of the file.
MaxItems == 3

EntryItems(compact) ==
    IF compact THEN {Item(0, 0), Item(0, 300)}
    ELSE {Item(0, 0), Item(0, 300), Item(1, 0), Item(1, 300)}

EntryInputs ==
    { [fn |-> "entry", compact |-> c,
       object |-> [type |-> t, seqnum |-> 1, next |-> 0, items |-> its,
                   size |-> OBJECT_HEADER_SIZE + ENTRY_OBJECT_HEADER_SIZE
                              + cap * sizeof_entry_object_item(c) + rem]] :
        c \in BOOLEAN, t \in {"Entry"}, cap \in 0 .. MaxItems, rem \in {0, 3},
        its \in UNION {[1 .. n -> EntryItems(TRUE)] : n \in 0 .. MaxItems} }
    \cup
    { [fn |-> "entry", compact |-> FALSE,
       object |-> [type |-> t, seqnum |-> 1, next |-> 0, items |-> its,
                   size |-> OBJECT_HEADER_SIZE + ENTRY_OBJECT_HEADER_SIZE
                              + cap * sizeof_entry_object_item(FALSE)]] :
        t \in {"Entry", "Data"}, cap \in 0 .. MaxItems,
        its \in UNION {[1 .. n -> EntryItems(FALSE)] : n \in 0 .. MaxItems} }

\* Objects whose declared size is smaller than their headers, and array
\* objects of sizes around ENTRY_ARRAY_HEADER_SIZE.
SmallSizes == {0, 16, 40, 63}

SmallEntryInputs ==
    { [fn |-> "entry", compact |-> c,
       object |-> [type |-> "Entry", seqnum |-> 1, next |-> 0, items |-> its, size |-> sz]] :
        c \in BOOLEAN, sz \in SmallSizes, its \in {<<>>, <<Item(0, 300)>>} }

SmallDataInputs ==
    { [fn |-> "data", payload |-> p, is_compact |-> c,
       object |-> [DataObject("Data", "None", c, p) EXCEPT !.size = sz]] :
        p \in {<<>>, <<"k", "=", "v">>}, c \in BOOLEAN, sz \in SmallSizes \cup {70} }

ArrayInputs ==
    { [fn |-> "array", compact |-> c,
       object |-> [type |-> "EntryArray", size |-> sz, next |-> 0, items |-> <<>>, seqnum |-> 0]] :
        c \in BOOLEAN, sz \in {0, 8, 16, 20, 23, 24, 27, 28, 32, 40} }

SmallInputs == SmallEntryInputs \cup SmallDataInputs \cup ArrayInputs

Inputs == SmallInputs \cup CmpInputs \cup SortedInputs \cup RoundTripInputs \cup ListInputs \cup HeaderInputs \cup DataInputs \cup EntryInputs

PureInit ==
    /\ NoReader
    /\ input \in {Some(i) : i \in Inputs}
    /\ output = None

Applies(fn) == input # None /\ input[1].fn = fn /\ output = None

\* a.cmp(&b) on two FilenameInfo
Compare ==
    /\ Applies("cmp")
    /\ output' = Some(FilenameCmp(input[1].a, input[1].b))
    /\ UNCHANGED <<input, reader>>

\* BTreeSet::insert: a value that compares Equal to one of the set is not
\* inserted (the set keeps the value it has); otherwise the value takes its
\* place in the order.
BTreeSet_insert(sorted, file) ==
    IF \E i \in 1 .. Len(sorted) : FilenameCmp(sorted[i], file) = 0 THEN sorted
    ELSE LET less == Cardinality({i \in 1 .. Len(sorted) : FilenameCmp(sorted[i], file) < 0})
         IN SubSeq(sorted, 1, less) \o <<file>> \o SubSeq(sorted, less + 1, Len(sorted))

\* list_files_sorted (default method) on the listing that list_files yields:
\* every file is inserted into a BTreeSet, which is then iterated.
list_files_sorted(listing) ==
    LET RECURSIVE Ins(_)
        Ins(k) == IF k = 0 THEN <<>> ELSE BTreeSet_insert(Ins(k - 1), listing[k])
    IN Ins(Len(listing))

ListFilesSorted ==
    /\ Applies("sorted")
    /\ output' = Some(list_files_sorted(input[1].listing))
    /\ UNCHANGED <<input, reader>>

\* parse_filename(&make_filename(&info))
RoundTrip ==
    /\ Applies("roundtrip")
    /\ output' = Some([path |-> make_filename(input[1].info),
                       parsed |-> parse_filename(make_filename(input[1].info))])
    /\ UNCHANGED <<input, reader>>

\* list_files(Some(&make_prefix(&journal)))
ListFiles ==
    /\ Applies("list")
    /\ output' = Some(list_files_paths(input[1].paths, make_prefix_path(input[1].journal)))
    /\ UNCHANGED <<input, reader>>

HeaderRead ==
    /\ Applies("header")
    /\ output' = Some(Header_parse(input[1].raw))
    /\ UNCHANGED <<input, reader>>

DataRead ==
    /\ Applies("data")
    /\ \E overflow_checks \in BOOLEAN :
         output' = Some(Data_read_at(input[1].object, input[1].is_compact, overflow_checks))
    /\ UNCHANGED <<input, reader>>

EntryRead ==
    /\ Applies("entry")
    /\ output' = Some(Entry_read_object(Ok(input[1].object), ArrA, input[1].compact))
    /\ UNCHANGED <<input, reader>>

ArraySizeRead ==
    /\ Applies("array")
    /\ \E overflow_checks \in BOOLEAN :
         output' = Some(entries_array_size(input[1].object, [compact |-> input[1].compact],
                                           overflow_checks))
    /\ UNCHANGED <<input, reader>>

PureNext ==
    \/ ArraySizeRead
    \/ EntryRead
    \/ DataRead
    \/ HeaderRead
    \/ ListFiles
    \/ Compare
    \/ ListFilesSorted
    \/ RoundTrip

PureSpec == PureInit /\ [][PureNext]_vars

\* ------------------------------------------------------------------------
\* Helpers of the claims.

\* The journal a stream or seek works on.
Sel == select[1]

\* The archived files of journal j in the directory, and its live file.
ArchivedOf(j) ==
    {f \in dir : is_archived(f) /\ f.machine_id = j.machine_id /\ f.scope = j.scope}

LiveOf(j) == Latest(j.machine_id, j.scope)

\* The least file of a nonempty set in the documented order.
DocMin(S) == CHOOSE f \in S : \A g \in S : DocCmp(f, g) <= 0

\* The capacity of the entry array at offset a of a file: the number of whole
\* items that fit in the item region of the object.
Capacity(c, a) ==
    (c.objs[a].size - OBJECT_HEADER_SIZE - ENTRY_ARRAY_HEADER_SIZE)
        \div (IF c.compact THEN 4 ELSE 8)

\* The index of the first zero item of the entry array at offset a (the number
\* of stored items when none is zero).
FirstZero(c, a) ==
    LET items == c.objs[a].items
        zeros == {i \in 0 .. Len(items) - 1 : items[i + 1] = 0}
    IN IF zeros = {} THEN Len(items) ELSE CHOOSE i \in zeros : \A k \in zeros : i <= k

Min(a, b) == IF a < b THEN a ELSE b

\* The entry arrays of a file in chain order from its entry_array_offset, each
\* visited once (the walk stops at a repeated or missing array).
ArrayChain(c) ==
    LET RECURSIVE Walk(_, _)
        Walk(a, seen) ==
            IF a = 0 \/ a \in seen \/ a \notin DOMAIN c.objs THEN <<>>
            ELSE IF c.objs[a].type # "EntryArray" THEN <<>>
            ELSE <<a>> \o Walk(c.objs[a].next, seen \cup {a})
    IN Walk(c.entry_array_offset, {})

\* The offsets a file's entry arrays list, by the format: along the chain, the
\* items of each array up to its first zero item or its capacity.
ListedEntries(c) ==
    LET chain == ArrayChain(c)
        RECURSIVE Cat(_)
        Cat(i) == IF i > Len(chain) THEN <<>>
                  ELSE SubSeq(c.objs[chain[i]].items, 1,
                              Min(FirstZero(c, chain[i]), Capacity(c, chain[i])))
                       \o Cat(i + 1)
    IN Cat(1)

\* The seqnums of the entries a file lists (0 for an offset that names no
\* entry).
ListedSeqnums(c) ==
    LET es == ListedEntries(c)
    IN [i \in 1 .. Len(es) |->
          IF es[i] \in DOMAIN c.objs /\ c.objs[es[i]].type = "Entry"
            THEN c.objs[es[i]].seqnum ELSE 0]

Increasing(q) == \A i \in 1 .. Len(q) - 1 : q[i] < q[i + 1]

\* A file is well-formed: it starts with the magic; its entry-array chain
\* starts at an entry array and ends, without a cycle, at an array that has no
\* next array; every array has room for an item and stores its whole item
\* region; every listed offset names an entry; and the entries are listed in
\* increasing seqnum order.
WellFormedFile(c) ==
    LET chain == ArrayChain(c)
    IN /\ c.magic_ok
       /\ chain # <<>>
       /\ c.objs[chain[Len(chain)]].next = 0
       /\ \A i \in 1 .. Len(chain) :
            /\ Capacity(c, chain[i]) >= 1
            /\ Len(c.objs[chain[i]].items) >= Capacity(c, chain[i])
       /\ Increasing(<<0>> \o ListedSeqnums(c))

\* A set of files as the sequence in the documented order.
RECURSIVE DocSorted(_)
DocSorted(S) ==
    IF S = {} THEN <<>> ELSE <<DocMin(S)>> \o DocSorted(S \ {DocMin(S)})

\* The seqnums of `out`.
OutSeqnums == [i \in 1 .. Len(out) |-> out[i].seqnum]

\* ------------------------------------------------------------------------
\* C8: whenever select(j) returns an error, the reader has no selection, no
\* loaded header or position, and the adapter has no file open.
C8_SelectErrorUnselects ==
    (ret.op = "select" /\ ret.kind # "Ok")
        => (select = None /\ current = None /\ open = None)

\* A select that failed with not-found while the directory holds a journal
\* that an earlier select can have opened.
C8_Witness ==
    /\ ret = Ret("select", "NotFound")
    /\ sL \in dir

\* A select that failed on an I/O error of the storage.
C8_WitnessIo ==
    /\ ret = Ret("select", "Io")
    /\ sL \in dir

\* ------------------------------------------------------------------------
\* C9: when select(j) succeeds the selection is j, no position is held, and
\* the one open file is the live file of j when it exists, otherwise an
\* archived file of j; the open file has the machine id and scope of j (so
\* select fails when j has no file).
C9_SelectOpensFileOfJournal ==
    (ret.op = "select" /\ ret.kind = "Ok")
        => /\ select # None
           /\ current = None
           /\ open # None
           /\ open[1] \in dir
           /\ open[1].machine_id = Sel.machine_id
           /\ open[1].scope = Sel.scope
           /\ (LiveOf(Sel) \in dir => open[1] = LiveOf(Sel))
           /\ (LiveOf(Sel) \notin dir => open[1] \in ArchivedOf(Sel))

\* ------------------------------------------------------------------------
\* C10: after seek(Oldest) succeeds the open file is the first archived file
\* of the selection in sort order (the live file when the selection has no
\* archived file) and the position is (header.entry_array_offset, Some(0)).
C10_SeekOldestOpensFirstArchived ==
    (ret.op = "seek_oldest" /\ ret.kind = "Ok")
        => /\ open # None
           /\ open[1] = IF ArchivedOf(Sel) # {} THEN DocMin(ArchivedOf(Sel)) ELSE LiveOf(Sel)
           /\ current # None
           /\ current[1].file = open[1]
           /\ current[1].position
                = Position(content[open[1]].entry_array_offset, Some(0))

\* ------------------------------------------------------------------------
\* C1: in one stream, when the iterator moves from one file to the next, every
\* entry yielded from the new file has a seqnum greater than that of the last
\* entry yielded before the move, and no entry is yielded twice.
C1_CrossFileMonotonic ==
    /\ \A k \in 1 .. Len(out) - 1 :
         out[k].file # out[k + 1].file
           => \A m \in k + 1 .. Len(out) :
                (\A n \in k + 1 .. m : out[n].file = out[k + 1].file)
                  => out[m].seqnum > out[k].seqnum
    /\ \A i \in 1 .. Len(out) : \A j \in 1 .. Len(out) :
         i < j => <<out[i].file, out[i].offset>> # <<out[j].file, out[j].offset>>

\* ------------------------------------------------------------------------
\* C2: for a well-formed journal, select, seek(Oldest) and a drained entries()
\* yield every entry of the archived files and of the live file exactly once,
\* in increasing seqnum order, and the stream ends without an error.

\* Journal j is well-formed: its live file exists, every file of it is
\* well-formed, every archived file holds an entry and is named after the seqnum of its first entry, and
\* the seqnums increase from file to file in sort order, the live file last.
WellFormedJournal(j) ==
    LET files == DocSorted(ArchivedOf(j) \cup {LiveOf(j)})
    IN /\ LiveOf(j) \in dir
       /\ \A i \in 1 .. Len(files) :
            LET q == ListedSeqnums(content[files[i]])
            IN /\ WellFormedFile(content[files[i]])
               /\ is_archived(files[i]) => (q # <<>> /\ files[i].head_seqnum = q[1])
               /\ i < Len(files) => ListedSeqnums(content[files[i + 1]]) # <<>>
               /\ (i < Len(files) /\ q # <<>>)
                    => q[Len(q)] < ListedSeqnums(content[files[i + 1]])[1]

\* The seqnums of all entries of journal j, file by file in sort order.
JournalSeqnums(j) ==
    LET files == DocSorted(ArchivedOf(j) \cup {LiveOf(j)})
        RECURSIVE Cat(_)
        Cat(i) == IF i > Len(files) THEN <<>>
                  ELSE ListedSeqnums(content[files[i]]) \o Cat(i + 1)
    IN Cat(1)

C2_DrainYieldsWholeJournal ==
    (/\ pc = "done"
     /\ ret.prev = "seek_oldest"
     /\ ~faults
     /\ select # None
     /\ WellFormedJournal(Sel))
        => /\ ret.kind = "Ok"
           /\ OutSeqnums = JournalSeqnums(Sel)

C4_Termination == (pc \notin {"idle", "done"}) ~> (pc \in {"idle", "done"})

\* ------------------------------------------------------------------------
\* C5: the entries yielded from an entry array are those of its items before
\* the first zero item and within its capacity: no item at or past
\* min(first zero index, capacity) is yielded, and the walker leaves the array
\* at exactly that index.
C5_Step ==
    LET c == OpenContent
        a == current[1].position.entry_array_offset
        i == current[1].position.index[1]
        bound == Min(FirstZero(c, a), Capacity(c, a))
    IN /\ (pc = "item" /\ pc' = "yielded") => i < bound
       /\ (pc = "item" /\ current[1].position.index # None /\ pc' = "next") => i = bound
       /\ (pc = "yielded" /\ pc' = "next") => i + 1 = bound

C5_CapacityBound == [][C5_Step]_vars

\* ------------------------------------------------------------------------
\* C6: when the walker has no more entry arrays and an entry has been yielded,
\* entries() opens the least, in the documented order, of the archived files
\* of the selection whose head_seqnum is greater than last_seqnum, loads it
\* and resumes at its first entry; it opens no archived file whose
\* head_seqnum is not greater.
C6_Step ==
    (pc = "files" /\ current_seqnum # None /\ select # None /\ ~faults)
        => LET G == {f \in ArchivedOf(Sel) : f.head_seqnum > current_seqnum[1]}
           IN /\ G # {}
                   => /\ open' = Some(DocMin(G))
                      /\ pc' = "array"
                      /\ current' = Load(DocMin(G), FALSE).val
              /\ \A f \in dir :
                   (open' = Some(f) /\ is_archived(f) /\ pc' = "array")
                       => f.head_seqnum > current_seqnum[1]

C6_NextArchivedFile == [][C6_Step]_vars

\* ------------------------------------------------------------------------
\* C7: when the walker has no more entry arrays and rule 1 opens no file,
\* entries() opens and loads the live file of the selection if the open file
\* is archived, and otherwise ends without an error; also when no entry was
\* yielded.
C7_Step ==
    (/\ pc = "files" /\ select # None /\ ~faults
     /\ LiveOf(Sel) \in dir
     /\ \/ current_seqnum = None
        \/ NextFileCandidates(list_files(dir, make_prefix(Sel)), current_seqnum[1]) = {})
        => IF open # None /\ is_archived(open[1])
             THEN /\ open' = Some(LiveOf(Sel))
                  /\ pc' = "array"
                  /\ current' = Load(LiveOf(Sel), FALSE).val
             ELSE /\ pc' = "done"
                  /\ ret'.kind = "Ok"
                  /\ open' = open

C7_LiveFileOrEnd == [][C7_Step]_vars

\* ------------------------------------------------------------------------
\* C11: after seek(Newest) succeeds the live file of the selection is open and
\* the position is (the last entry array of its chain, the one without a next
\* array; None); a stream of entries() started right after yields no entry
\* and, when the storage raises no I/O error, ends without an error.  (On the
\* in-memory adapter the one buffer is the file every open() addresses.)
C11_SeekNewestAtEnd ==
    /\ ret = Ret("seek_newest", "Ok")
         => /\ open = Opened(LiveOf(Sel))
            /\ current # None
            /\ current[1].file = open[1]
            /\ current[1].position.index = None
            /\ LET chain == ArrayChain(OpenContent)
               IN /\ chain # <<>>
                  /\ current[1].position.entry_array_offset = chain[Len(chain)]
                  /\ OpenContent.objs[chain[Len(chain)]].next = 0
    /\ (ret.op = "entries" /\ ret.prev = "seek_newest")
         => /\ out = <<>>
            /\ (pc = "done" /\ ~faults) => ret.kind = "Ok"

\* A stream started after a seek(Newest) that followed the chain to its
\* second array has ended.
C11_Witness ==
    /\ ret = [op |-> "entries", kind |-> "Ok", prev |-> "seek_newest"]
    /\ pc = "done"
    /\ current[1].position.entry_array_offset # current[1].header.entry_array_offset
    /\ ListedSeqnums(OpenContent) # <<>>

\* ------------------------------------------------------------------------
\* C12: seek on a reader without a selection fails with not-connected for
\* every Seek variant and leaves the selection, the open file and the
\* position as they were; it performs no storage operation: it fails in this
\* way also on a storage whose every operation can raise an I/O error.
SeekOps == {"seek_oldest", "seek_newest", "seek_todo"}

C12_Step ==
    (pc = "idle" /\ select = None /\ ret'.op \in SeekOps)
        => /\ ret'.kind = "NotConnected"
           /\ UNCHANGED <<select, open, current, pc>>

C12_SeekWithoutSelection == [][C12_Step]_vars

\* A seek has failed with not-connected on a faulty storage that holds the
\* files of a journal.
C12_Witness ==
    /\ ret.op \in SeekOps
    /\ ret.kind = "NotConnected"
    /\ faults
    /\ dir # {}

\* ------------------------------------------------------------------------
\* C13: seek(Oldest) on a selected journal whose listing returns no file fails
\* with not-found; a seek (Oldest or Newest) that fails at the listing or at
\* the open leaves the selection, the open file and the loaded position as
\* they were (the open file differs after a failed seek only when the open
\* succeeded and the load of the new file failed).
LoadFails(f, kind) == \E fail \in FaultChoices : Load(f, fail).err = kind

C13_Step ==
    (pc = "idle" /\ select # None /\ ret'.op \in {"seek_oldest", "seek_newest"})
        => /\ (/\ ret'.op = "seek_oldest"
               /\ list_files(dir, make_prefix(Sel)) = {}) => ret'.kind = "NotFound"
           /\ ret'.kind \notin {"Ok", "Pending"}
                => /\ UNCHANGED <<select, current, pc>>
                   /\ \/ open' = open
                      \/ /\ open' # None
                         /\ open'[1] \in dir
                         /\ LoadFails(open'[1], ret'.kind)
           /\ ret'.kind = "NotFound" => open' = open

C13_FailedSeekKeepsState == [][C13_Step]_vars

\* A seek failed with not-found, or at its open, while a file was open and a
\* position loaded.
C13_Witness ==
    /\ ret.op \in {"seek_oldest", "seek_newest"}
    /\ ret.kind \in {"NotFound", "Io"}
    /\ select # None
    /\ open # None
    /\ current # None
    /\ current[1].file = open[1]

\* seek(Oldest) failed with not-found on a listing that returned no file
\* (the directory holds no journal file any more), while a file was open and
\* a position loaded.
C13_WitnessEmpty ==
    /\ ret = Ret("seek_oldest", "NotFound")
    /\ select # None
    /\ list_files_error(dir, make_prefix(Sel)) = ""
    /\ list_files(dir, make_prefix(Sel)) = {}
    /\ open # None
    /\ current # None
    /\ current[1].file = open[1]

\* ------------------------------------------------------------------------
\* C14: the order on FilenameInfo is the lexicographic order on
\* (head_realtime, head_seqnum, file_seqnum, scope, machine_id) for two archived
\* files, an archived file is less than a live file, two live files are
\* ordered by (scope, machine_id), and two values compare Equal only when they
\* are equal.
C14_DocumentedOrder ==
    (input # None /\ input[1].fn = "cmp" /\ output # None)
        => /\ output[1] = DocCmp(input[1].a, input[1].b)
           /\ output[1] = 0 => input[1].a = input[1].b

\* ------------------------------------------------------------------------
\* C15: list_files_sorted yields exactly the files that list_files yields,
\* each once and none dropped, in non-decreasing sort order.
Range(q) == {q[i] : i \in 1 .. Len(q)}

C15_SortedKeepsEveryFile ==
    (input # None /\ input[1].fn = "sorted" /\ output # None)
        => /\ Range(output[1]) = Range(input[1].listing)
           /\ Len(output[1]) = Len(input[1].listing)
           /\ \A i \in 1 .. Len(output[1]) - 1 : DocCmp(output[1][i], output[1][i + 1]) <= 0

\* ------------------------------------------------------------------------
\* C16: parse_filename(make_filename(info)) = Some(info) for every
\* FilenameInfo, whatever its scope and head_realtime.
Done(fn) == input # None /\ input[1].fn = fn /\ output # None

Has(str, ch) == \E k \in 1 .. Len(str) : str[k] = ch

RoundTripDomain(info) ==
    /\ ~Has(info.scope, "@")
    /\ ~Has(info.scope, "/")
    /\ info.kind = "Latest" => ~Has(info.scope, ".") /\ info.scope # <<"f", "s", "s">>
    /\ info.kind = "Archived" => info.head_realtime >= 0 /\ info.head_realtime % 1000 = 0

C17_ListFilesHonoursPrefix ==
    Done("list")
        => \A y \in output[1] :
             /\ starts_with(y.path, make_prefix_path(input[1].journal))
             /\ is_archived(y.file)
             /\ y.file.machine_id = input[1].journal.machine_id
             /\ y.file.scope = input[1].journal.scope

\* ------------------------------------------------------------------------
\* A raw header that is well formed apart from its flag words and the values
\* of its fields: the magic matches, the state byte is a State, header_size is
\* one of the sizes of the format and the file holds that many bytes.
WellFormedRaw(raw) ==
    /\ raw.magic_ok
    /\ raw.state \in State
    /\ raw.header_size \in HeaderSizes
    /\ raw.len >= raw.header_size

\* C18: header parsing succeeds for every subset of the five known
\* incompatible_flags bits and decodes exactly that subset; it fails with
\* invalid-data whenever another incompatible_flags bit is set; every value of
\* compatible_flags is accepted, its unknown bits dropped and its known bits
\* decoded.
C18_FlagGating ==
    (Done("header") /\ WellFormedRaw(input[1].raw))
        => IF input[1].raw.incompatible \subseteq IncompatibleFlag
             THEN /\ output[1].err = ""
                  /\ output[1].val.incompatible_flags = input[1].raw.incompatible
                  /\ output[1].val.compatible_flags = input[1].raw.compatible \cap CompatibleFlag
             ELSE output[1].err = "InvalidData"

\* ------------------------------------------------------------------------
\* C19: for each header_size of the format, parsing a header of that many
\* bytes succeeds, and an optional trailing field is present exactly when its
\* end offset is at most header_size.
C19_VersionGating ==
    ( /\ Done("header")
      /\ WellFormedRaw(input[1].raw)
      /\ input[1].raw.len = input[1].raw.header_size
      /\ input[1].raw.incompatible \subseteq IncompatibleFlag )
        => /\ output[1].err = ""
           /\ output[1].val.present =
                {OptionalFields[i].name :
                    i \in {j \in DOMAIN OptionalFields : OptionalFields[j].end <= input[1].raw.header_size}}

\* ------------------------------------------------------------------------
\* C20: for an uncompressed Data object whose payload is k ++ "=" ++ v with no
\* '=' in k (v may be empty and may hold '='), materialization yields key = k
\* and value = v; for a payload without '=' it yields an invalid-data error.
C20_DataRoundTrip ==
    ( /\ Done("data")
      /\ input[1].object.type = "Data"
      /\ input[1].object.compression = "None" )
        => IF Has(input[1].payload, "=")
             THEN /\ output[1].err = ""
                  /\ ~Has(output[1].val.key, "=")
                  /\ input[1].payload = output[1].val.key \o <<"=">> \o output[1].val.value
             ELSE output[1].err = "InvalidData"

\* ------------------------------------------------------------------------
\* C21: every error the storage returns during a step of entries() is yielded
\* as an error item, and the stream yields nothing after its first error
\* item.  For the cross-file handoff: a step that goes on without an error
\* item has seen the whole listing, so when the directory lists an archived
\* file with a greater head_seqnum the stream neither ends cleanly nor moves
\* to a file that is not the first of them.
C21_Step ==
    /\ ( /\ pc = "files" /\ pc' # "files"
         /\ current_seqnum # None
         /\ select # None
         /\ ret'.kind \in {"Pending", "Ok"} )
        => LET all == NextFileCandidates(list_files(dir, make_prefix(Sel)), current_seqnum[1])
           IN all # {} => /\ pc' = "array"
                          /\ open'[1] \in BTreeFirst(all)
    /\ (pc = "done" /\ ret.kind \notin {"Pending", "Ok"}) => (out' = out \/ pc' = "idle")

C21_ErrorsSurface == [][C21_Step]_vars

\* ------------------------------------------------------------------------
\* C22: a stream of entries() created after a stream that ended cleanly, with
\* no seek, select or change of the files in between, yields no entry and,
\* when the storage raises no I/O error, ends without an error.
C22_NotRestartable ==
    (ret.op = "entries" /\ ret.prev = "entries")
        => /\ out = <<>>
           /\ (pc = "done" /\ ~faults) => ret.kind = "Ok"

\* A second stream has ended after a first one that yielded the entries of
\* two files.
C22_Witness ==
    /\ ret = [op |-> "entries", kind |-> "Ok", prev |-> "entries"]
    /\ pc = "done"
    /\ ~faults
    /\ open = Some(sL)
    /\ sA \in dir
    /\ ListedSeqnums(content[sA]) # <<>>
    /\ ListedSeqnums(content[sL]) # <<>>
    /\ current[1].position.entry_array_offset = ArrB

\* ------------------------------------------------------------------------
\* A step in which load() ran, on a storage that raises no I/O error, on a
\* file that does not start with the magic: the first poll of a stream
\* without a loaded file, a seek that got as far as opening its file, or a
\* cross-file step of entries() that opened its file.
BadMagicLoad ==
    /\ ~faults
    /\ \/ /\ pc = "start" /\ pc' \in {"array", "done"}
          /\ current = None
          /\ open # None
          /\ ~content[open[1]].magic_ok
       \/ /\ pc = "idle"
          /\ ret'.op \in {"seek_oldest", "seek_newest"}
          /\ ret'.kind \notin {"NotConnected", "NotFound"}
          /\ open' # None
          /\ ~content[open'[1]].magic_ok
       \/ /\ pc = "files" /\ pc' # "files"
          /\ ret'.kind \notin {"Ok", "NotConnected", "NotFound"}
          /\ open' # None
          /\ ~content[open'[1]].magic_ok

\* No loaded header was read from a file that does not start with the magic.
NeverABadMagicHeader == current # None => content[current[1].file].magic_ok

\* C23: for every input whose first 8 bytes differ from the magic,
\* Header::read returns an invalid-data error and never a header, and load()
\* then leaves the loaded header and position of the reader as they were.
C23_Step ==
    BadMagicLoad => /\ ret'.kind = "InvalidData"
                    /\ current' = current

C23_StepByLength ==
    BadMagicLoad
        => /\ ret'.kind = IF content[open'[1]].len < MIN_HEADER_SIZE
                            THEN "UnexpectedEof" ELSE "InvalidData"
           /\ current' = current

C24_CurrentBelongsToOpenFile ==
    current # None => /\ open # None
                      /\ current[1].file = open[1]

\* ------------------------------------------------------------------------
\* C25: when a stream is dropped after the caller received k entries, a new
\* stream created with no seek or select in between starts at entry k + 1:
\* the position is advanced for every entry handed to the caller, so when the
\* stream is dropped right after an entry the position no longer names the
\* item of that entry.
C25_Step ==
    (pc = "yielded" /\ pc' = "idle")
        => ~ /\ current'[1].position.entry_array_offset = out[Len(out)].array
             /\ current'[1].position.index = Some(out[Len(out)].index)

C25_DropResumesAfterLast == [][C25_Step]_vars

\* ------------------------------------------------------------------------
\* The number of leading items of an entry object, among the first `bound`,
\* that are not zero.
LeadingItems(items, bound) ==
    LET n == Min(bound, Len(items))
        zeros == {i \in 1 .. n : items[i].hi = 0 /\ items[i].lo = 0}
    IN IF zeros = {} THEN n ELSE (CHOOSE i \in zeros : \A j \in zeros : i <= j) - 1

HasNextArray ==
    LET o == current[1].position.entry_array_offset
    IN /\ o \in DOMAIN OpenContent.objs
       /\ OpenContent.objs[o].type = "EntryArray"
       /\ OpenContent.objs[o].next # 0

\* The array object at the current entry_array_offset names no next array.
HasNoNextArray ==
    LET o == current[1].position.entry_array_offset
    IN /\ o \in DOMAIN OpenContent.objs
       /\ OpenContent.objs[o].type = "EntryArray"
       /\ OpenContent.objs[o].next = 0

MovedToNextArray ==
    /\ HasNextArray
    /\ current'[1].position =
         Position(OpenContent.objs[current[1].position.entry_array_offset].next, Some(0))

C28_Step ==
    /\ (pc = "next" /\ pc' # "next") =>
          /\ pc' = "array" => MovedToNextArray
          /\ pc' = "files" => HasNoNextArray /\ current' = current
          /\ pc' = "done" => current' = current
          /\ (~faults /\ HasNextArray) => pc' = "array"
          /\ (~faults /\ HasNoNextArray) => pc' = "files"
    /\ (pc = "skip" /\ current' # current /\ pc' = "skip") => MovedToNextArray
    /\ (pc = "skip" /\ pc' = "idle") =>
          /\ current'[1].position.entry_array_offset = current[1].position.entry_array_offset
          /\ ret'.kind = "Ok" => HasNoNextArray
          /\ ret'.kind # "Ok" => current' = current
          /\ (~faults /\ HasNextArray) => FALSE

C28_NextEntryArray == [][C28_Step]_vars

\* The walker has yielded the entry of the first array and has moved to the
\* second array of the chain, at index 0.
C28_Witness ==
    /\ pc = "array"
    /\ Len(out) = 1
    /\ current # None
    /\ current[1].position = Position(ArrB, Some(0))

\* ------------------------------------------------------------------------
\* C27: every read the entry walker issues at an explicit offset is at a file
\* offset of at least 208 (the minimal header size): an offset below 208 that
\* was taken from the file is rejected before any read is made at it.
C27_ReadsAboveHeader ==
    (pc = "item" /\ current # None /\ open # None)
        => \A offset \in EntriesItemReads : offset >= MIN_HEADER_SIZE

\* ------------------------------------------------------------------------
\* C30: entry_data(e) yields the Data objects of e read from the file that e
\* was read from, for every entry e the stream of entries has yielded, also
\* when the stream has crossed into another file since: the call either
\* yields the objects of e's own file or fails, and never yields objects of
\* another file.

\* The Data objects of the entry e in the file e was read from.
OwnData(e) == Entry_data(content[e.file], e.objects, content[e.file].compact, FALSE)

C30_DataOfOwnFile ==
    pc = "data" =>
        LET e == output[1].entry
            r == output[1].result
        IN r.err = "" => (e.file \in DOMAIN content /\ r.data = OwnData(e).data)

\* ------------------------------------------------------------------------
\* C26: when the object at the current entry-array offset is not an
\* EntryArray, or the object at the offset held by an array item is not an
\* Entry, the stream of entries() ends with an invalid-data error and yields no
\* entry for it; when the object at an item offset of an entry is not a Data
\* object, the stream of entry_data() yields no value for it and ends with an
\* invalid-data error.  (Where reads may fail, the error of the failed read
\* may come instead.  The error message, which names the expected and the
\* found type, is not part of the state.)

\* The type of the object at the offset o of the contents c ("none" if there
\* is no object there).
TypeAt(c, o) ==
    IF o \in DOMAIN c.objs /\ o >= MIN_HEADER_SIZE /\ o < c.len THEN c.objs[o].type ELSE "none"

EndsWithInvalidData ==
    /\ pc' = "done"
    /\ out' = out
    /\ ret'.kind \in (IF faults THEN {"InvalidData", "Io"} ELSE {"InvalidData"})

\* The offset named by the array item the walker is at (0 if there is none).
ItemAtIndex ==
    LET cur == current[1]
        io == entry_index_and_offset(cur)
        item == EntryArrayItem_read_at(OpenContent, cur.position.entry_array_offset, io[1][2])
    IN IF io = None \/ item.err # "" THEN 0 ELSE item.val

C26_Step ==
    /\ ( /\ pc = "array" /\ pc' # "array" /\ open # None
         /\ TypeAt(OpenContent, current[1].position.entry_array_offset)
               \notin {"EntryArray", "none"} )
          => EndsWithInvalidData
    /\ ( /\ pc = "item" /\ pc' # "item" /\ open # None
         /\ ItemAtIndex # 0
         /\ TypeAt(OpenContent, ItemAtIndex) \notin {"Entry", "none"} )
          => EndsWithInvalidData
    /\ (pc # "data" /\ pc' = "data" /\ open # None /\ current # None)
          => LET e == output'[1].entry
                 r == output'[1].result
             IN \A i \in 1 .. Len(e.objects) :
                   TypeAt(OpenContent, e.objects[i]) \notin {"Data", "none"}
                     => /\ Len(r.data) < i
                        /\ r.err # ""
                        /\ (i = 1 /\ ~faults) => r.err = "InvalidData"

C26_WrongTypeIsInvalidData == [][C26_Step]_vars

\* entry_data() has ended with invalid-data on an entry whose item names an
\* Entry object.
C26_Witness ==
    /\ pc = "data"
    /\ open # None
    /\ output[1].result = [data |-> <<>>, err |-> "InvalidData"]
    /\ output[1].entry.objects # <<>>
    /\ TypeAt(OpenContent, output[1].entry.objects[1]) = "Entry"

\* ------------------------------------------------------------------------
\* C31: with a machine directory that holds files of several scopes, every
\* file opened by select(j), by seek(Oldest) and by the cross-file steps of
\* entries() has the scope and the machine id of the selection j, and no entry
\* of a file of another scope is yielded.
C31_OpensOnlySelectedScope ==
    select # None
        => /\ open # None => /\ open[1].scope = Sel.scope
                             /\ open[1].machine_id = Sel.machine_id
           /\ \A i \in 1 .. Len(out) : /\ out[i].file.scope = Sel.scope
                                       /\ out[i].file.machine_id = Sel.machine_id

\* ------------------------------------------------------------------------
\* C32: for a selected journal that has archived files and no live file, the
\* stream of entries() that follows seek(Oldest) never ends with a not-found
\* error (caused by an attempt to open the missing live file): after the
\* entries of the archived files it ends cleanly.
C32_NoLiveFileEndsCleanly ==
    ( /\ pc = "done" /\ ret.op = "entries" /\ ret.prev = "seek_oldest"
      /\ select # None
      /\ LiveOf(Sel) \notin dir
      /\ ArchivedOf(Sel) # {} )
        => ret.kind # "NotFound"

\* ------------------------------------------------------------------------
\* C33: during one stream of entries() each file is opened by a cross-file
\* step at most once, also when an archived file holds no entry or when the
\* head_seqnum of its name is larger than the seqnums of its entries: in
\* particular the file a cross-file step opens is never the file the walker
\* has just finished.
C33_Step ==
    (pc = "files" /\ pc' = "array" /\ open # None) => open'[1] # open[1]

C33_NoFileOpenedTwice == [][C33_Step]_vars

\* ------------------------------------------------------------------------
\* C35: whenever load() runs (from a seek, from the first poll of entries()
\* after select, or from a cross-file step) the header is read starting at
\* byte offset 0 of the open file, whatever reads and seeks were made before.
\* The loads of seek and of the cross-file step follow an open(), which gives
\* the on-disk adapter a new file handle; the load of load_if_needed() at the
\* first poll of a stream reads from wherever the cursor is.
C35_Step ==
    (pc = "start" /\ pc' \in {"array", "done"} /\ current = None /\ open # None)
        => at_start

C35_LoadReadsFromStart == [][C35_Step]_vars

\* ------------------------------------------------------------------------
\* C34: select is history-independent.  Whatever calls a reader has made
\* before, the state a successful select(j) leaves it in is determined by j
\* and the storage alone: the selection is j, no header or position is held,
\* no stream is running, and the open file is at its start, so that the
\* stream of entries() that follows reads the header of the open file and
\* yields the same entries as that of any other reader over the same storage.
C34_SelectIsHistoryIndependent ==
    (ret.op = "select" /\ ret.kind = "Ok")
        => /\ select # None
           /\ current = None
           /\ pc = "idle"
           /\ out = <<>>
           /\ current_seqnum = None
           /\ open # None
           /\ at_start

\* C36: a header whose head_entry_realtime or tail_entry_realtime is stored as
\* zero parses, and the field is absent (None); each of the two fields is Some
\* exactly when its stored 64-bit value is nonzero.
C36_ZeroRealtimeIsNone ==
    (Done("header") /\ WellFormedRaw(input[1].raw)
       /\ IncompatibleFlag_deku_reader(input[1].raw.incompatible).err = ""
       /\ input[1].raw.zero \subseteq {"head_entry_realtime", "tail_entry_realtime"})
        => /\ output[1].err = ""
           /\ \A name \in {"head_entry_realtime", "tail_entry_realtime"} :
                (output[1].val[name] # None) <=> (StoredRealtime(input[1].raw, name) # 0)

\* ------------------------------------------------------------------------
\* C37: materializing a Data object at offset o with declared size s reads, in
\* regular mode, the payload from o + 64 with length s - 64; in compact mode it
\* reads the compact payload sub-header from the 8 bytes that follow the
\* 48-byte data sub-header (at o + 64) and the payload from o + 72 with length
\* s - 72.  Offsets below are relative to the end of the 16-byte object header.
C37_DataRegions ==
    ( /\ Done("data")
      /\ input[1].object.type = "Data"
      /\ input[1].object.compression = "None"
      /\ output[1].err = "" )
        => LET object == input[1].object
               rel == IF input[1].is_compact
                        THEN DATA_OBJECT_HEADER_SIZE + DATA_OBJECT_COMPACT_PAYLOAD_HEADER_SIZE
                        ELSE DATA_OBJECT_HEADER_SIZE
           IN /\ output[1].val.key \o <<"=">> \o output[1].val.value
                   = SubSeq(object.body, rel + 1, object.size - OBJECT_HEADER_SIZE)
              /\ output[1].val.entry_array =
                   IF input[1].is_compact
                     THEN Some(SubSeq(object.body, DATA_OBJECT_HEADER_SIZE + 1,
                                      DATA_OBJECT_HEADER_SIZE + DATA_OBJECT_COMPACT_PAYLOAD_HEADER_SIZE))
                     ELSE None

\* ------------------------------------------------------------------------
\* C38: for any declared object size, sizes smaller than the headers
\* included (an EntryArray object below 24 bytes, an Entry object below 64, a
\* Data object below 64, or 72 in compact mode), the computations of the item
\* region and of the capacity do not underflow: there is no panic and no
\* count or length from a wrapped 64-bit subtraction; for such a small size
\* the capacity is 0 or the read fails with an error value.
C38_NoUnderflow ==
    /\ Done("array")
         => /\ output[1].err = ""
            /\ ~output[1].val.wrapped
            /\ input[1].object.size < OBJECT_HEADER_SIZE + ENTRY_ARRAY_HEADER_SIZE
                 => output[1].val.val = 0
    /\ (Done("entry") /\ input[1].object.type = "Entry")
         => /\ output[1].err # "Panic"
            /\ ( /\ input[1].object.size < OBJECT_HEADER_SIZE + ENTRY_OBJECT_HEADER_SIZE
                 /\ output[1].err = "" )
                 => output[1].val.objects = <<>>
    /\ ( /\ Done("data")
         /\ input[1].object.type = "Data"
         /\ input[1].object.compression = "None" )
         => output[1].err # "Panic"

====
